---------------------------- MODULE Spec2Model ----------------------------
(***************************************************************************)
(* Car recording / playback for GTA San Andreas (CLEO Redux scripts).      *)
(*                                                                         *)
(* Four state machines share this module:                                  *)
(*   SpecSlots    NativeCarRecordingViewer and the host's playback-slot    *)
(*                table (CVehicleRecording static arrays)                  *)
(*   SpecRegistry NativeCarRecordingInjector and the host's StreamingArray *)
(*                registry with its reference counts                       *)
(*   SpecPlayer   CarRecordingViewer driven by update(deltaTime)           *)
(*   SpecFrame    CarRecordingViewer driven by the wall clock (Date.now)   *)
(*                                                                         *)
(* Times are integers.  The delta-time player keeps its clock in tenths of *)
(* a millisecond so that the speed multiplier (kept in tenths) multiplies  *)
(* exactly.  Interpolated values are exact fractions <<num, den>>.         *)
(***************************************************************************)
EXTENDS Integers, Sequences, FiniteSets, TLC

VARIABLES
    heap,           \* every buffer ever allocated: allocator, owner, frees
    slots,          \* host playback-slot table (CVehicleRecording arrays)
    viewers,        \* NativeCarRecordingViewer instances
    nveh,           \* vehicles driven through the slot table
    registry,       \* host StreamingArray: CPath[TOTAL_RRR_MODEL_IDS]
    numPlayBackFiles, \* host counter NumPlayBackFiles
    injectors,      \* NativeCarRecordingInjector instances
    regRemovals,    \* history: a removal or host release has happened
    recording,      \* the CarRecording handed to the script-side viewers
    car,            \* the vehicle the script-side viewers drive
    player,         \* CarRecordingViewer driven by update(deltaTime)
    hist,           \* history of the current delta-time playback
    fviewer,        \* CarRecordingViewer driven by Date.now()
    now,            \* Date.now()
    fh,             \* history: why the wall-clock viewer is not playing,
                    \* and the clock a seek on it is due to show
    timer,          \* Clock.GetGameTimer()
    recorder,       \* CarRecordingRecorder toggled by SHIFT+R, writing a file
    mrecorder,      \* CarRecordingRecorder recording into memory (maxFrames)
    codec,          \* a fixed-point field, a value and its encoding
    file,           \* the recording file on disk: openable, size, header
    bq,             \* a query time and what getInterpolationFrames gave
    flagsFound,     \* history: the collision flags of the vehicle before
                    \* the playback that was started last
    last            \* the last call made and what it returned

vars == <<heap, slots, viewers, nveh, registry, numPlayBackFiles, injectors,
          regRemovals, recording, car, player, hist, fviewer, now, fh,
          timer, recorder, mrecorder, codec, file, bq, flagsFound, last>>

slotVars == <<slots, viewers, nveh>>
regVars  == <<registry, numPlayBackFiles, injectors, regRemovals>>
playVars == <<recording, car, player, hist, fviewer, now, fh>>
recVars  == <<timer, recorder, mrecorder>>
restVars == <<recVars, codec, file, bq, flagsFound>>

---------------------------------------------------------------------------
(* Bounds of the model *)

\* playback slots of the host table (16 in the game, scaled down)
TOTAL_VEHICLE_RECORDS == 2
\* NativeCarRecordingViewer instances
NumViewers == 2
\* vehicles that can be handed to the native viewer
NumNVehicles == 1
\* registry entries of the StreamingArray (475 in the game, scaled down);
\* one more than the ids of the reserved range, as the game has more
TOTAL_RRR_MODEL_IDS == 3
\* NativeCarRecordingInjector instances
NumInjectors == 2
\* number of ids of the reserved range 900.. (99 in the game, scaled down)
IdRangeSize == 2
\* buffers the two allocators can hand out in one run
MaxBufs == 3
\* buffers the native viewers can allocate in one run
MaxViewerBufs == 2
\* cap of the host's reference count on one registry entry
MaxRefs == 1

(* Program constants *)
FRAME_SIZE == 32
initialFileNumber == 900
MISSION_FOLLOW_PRE_RECORDED_PATH == 14
PLAYBACK_INDEX_WRITTEN == 900
PLAYBACK_GOING_ON_WRITTEN == 0
MEM_PATHS == 29

NULL == -1         \* TypeScript null
UNDEFINED == -2    \* TypeScript undefined (argument omitted)

Min(S) == CHOOSE x \in S : \A y \in S : x <= y
Max(S) == CHOOSE x \in S : \A y \in S : x >= y

---------------------------------------------------------------------------
(* The two allocators.  Addresses are never reused, so that a buffer's     *)
(* history (who allocated it, how often and through which allocator it was *)
(* freed) stays attached to it.                                            *)

Addrs == 1..MaxBufs
\* a recording the game itself loaded from carrec.img with its own allocator
HostData == MaxBufs + 1

NoBuffer == [alloc |-> "none", owner |-> 0, frees |-> 0, mismatch |-> FALSE,
             hot |-> FALSE, tabled |-> FALSE]

HeapInit == [a \in Addrs \cup {HostData} |->
               IF a = HostData THEN [NoBuffer EXCEPT !.alloc = "host"]
               ELSE NoBuffer]

HasFreshAddr == \E a \in Addrs : heap[a].alloc = "none"
FreshAddr == Min({a \in Addrs : heap[a].alloc = "none"})

\* Memory.Allocate(size): the script (CLEO Redux) heap
MemoryAllocate(h, a, who) ==
    [h EXCEPT ![a].alloc = "script", ![a].owner = who]

\* CMemoryMgr::Malloc(size, MEM_PATHS): the game's heap
CMemoryMgrMalloc(h, a, who) ==
    [h EXCEPT ![a].alloc = "host", ![a].owner = who]

\* a free of address p through allocator `via`; p = 0 or null frees nothing
FreeVia(h, p, via, isHot) ==
    IF p \in Addrs
    THEN [h EXCEPT ![p].frees = @ + 1,
                   ![p].mismatch = @ \/ (h[p].alloc # via),
                   ![p].hot = @ \/ isHot]
    ELSE h

MemoryFree(h, p) == FreeVia(h, p, "script", FALSE)
CMemoryMgrFree(h, p, isHot) == FreeVia(h, p, "host", isHot)

\* the pointer p is stored into a host-owned table
Tabled(h, p) == IF p \in Addrs THEN [h EXCEPT ![p].tabled = TRUE] ELSE h

---------------------------------------------------------------------------
(* NativeCarRecordingViewer and the playback-slot table                    *)

Slots == 0..(TOTAL_VEHICLE_RECORDS - 1)
Viewers == 1..NumViewers
NVehicles == 1..NumNVehicles
Speeds == {20}             \* speed multipliers, in tenths
\* <<useCarAI, looped>> as callers pass them: the defaults, and AI unlooped
StartOptions == {<<FALSE, TRUE>>, <<TRUE, FALSE>>}

EmptySlot == [vehicle |-> 0, buffer |-> 0, size |-> 0, index |-> 0,
              time |-> 0, speed |-> 0, goingOn |-> 0, looped |-> 0,
              paused |-> 0, useAI |-> 0]

\* recording.getFrameCount() of viewer / injector number n
FrameCount(n) == n + 1

findInactivePlaybackSlot ==
    IF \E i \in Slots : slots[i].goingOn = 0
    THEN Min({i \in Slots : slots[i].goingOn = 0})
    ELSE -1

\* the vehicle writes of startPlayback
StartVehicleWrites(v, s, useCarAI) ==
    IF useCarAI
    THEN [nveh EXCEPT ![v].mission = MISSION_FOLLOW_PRE_RECORDED_PATH,
                      ![v].field94 = s]
    ELSE [nveh EXCEPT ![v].flag7 = TRUE]

\* the slot as startPlayback leaves it
ClaimedSlot(v, a, n, useCarAI, looped) ==
    [vehicle |-> v, buffer |-> a, size |-> FrameCount(n) * FRAME_SIZE,
     index |-> PLAYBACK_INDEX_WRITTEN, time |-> 0, speed |-> 10,
     goingOn |-> PLAYBACK_GOING_ON_WRITTEN,
     looped |-> IF looped THEN 1 ELSE 0, paused |-> 0,
     useAI |-> IF useCarAI THEN 1 ELSE 0]

NativeViewer_startPlayback(w, v, useCarAI, looped, allocOk) ==
    LET s == findInactivePlaybackSlot IN
    IF s = -1
    THEN /\ viewers' = [viewers EXCEPT ![w].playbackSlot = -1]
         /\ last' = [op |-> "startPlayback", who |-> w, ret |-> "false",
                     aux |-> -1]
         /\ UNCHANGED <<heap, slots, nveh>>
    ELSE IF ~allocOk
    THEN /\ viewers' = [viewers EXCEPT ![w].playbackSlot = s,
                                       ![w].allocatedMemory = 0]
         /\ last' = [op |-> "startPlayback", who |-> w, ret |-> "false",
                     aux |-> s]
         /\ UNCHANGED <<heap, slots, nveh>>
    ELSE /\ HasFreshAddr
         /\ FreshAddr <= MaxViewerBufs
         /\ LET a == FreshAddr IN
            /\ heap' = Tabled(MemoryAllocate(heap, a, w), a)
            /\ viewers' = [viewers EXCEPT ![w].playbackSlot = s,
                                          ![w].allocatedMemory = a]
            /\ slots' = [slots EXCEPT
                           ![s] = ClaimedSlot(v, a, w, useCarAI, looped)]
            /\ nveh' = StartVehicleWrites(v, s, useCarAI)
            /\ last' = [op |-> "startPlayback", who |-> w, ret |-> "true",
                        aux |-> s]

\* the slot as stopPlayback leaves it
ReleasedSlot(sl) ==
    [sl EXCEPT !.vehicle = 0, !.buffer = 0, !.size = 0, !.goingOn = 0]

NativeViewer_stopPlayback(w) ==
    LET s == viewers[w].playbackSlot
        mem == viewers[w].allocatedMemory IN
    IF s = -1
    THEN /\ last' = [op |-> "stopPlayback", who |-> w, ret |-> "void",
                     aux |-> -1]
         /\ UNCHANGED <<heap, slots, viewers, nveh>>
    ELSE /\ nveh' = IF slots[s].vehicle \in NVehicles
                    THEN [nveh EXCEPT ![slots[s].vehicle].field94 = -1,
                                      ![slots[s].vehicle].flag7 = FALSE]
                    ELSE nveh
         /\ slots' = [slots EXCEPT ![s] = ReleasedSlot(slots[s])]
         /\ heap' = IF mem # NULL THEN MemoryFree(heap, mem) ELSE heap
         /\ viewers' = [viewers EXCEPT ![w].allocatedMemory = NULL,
                                       ![w].playbackSlot = -1]
         /\ last' = [op |-> "stopPlayback", who |-> w, ret |-> "void",
                     aux |-> s]

NativeViewer_pause(w) ==
    LET s == viewers[w].playbackSlot IN
    /\ slots' = IF s = -1 THEN slots ELSE [slots EXCEPT ![s].paused = 1]
    /\ last' = [op |-> "pause", who |-> w, ret |-> "void", aux |-> s]
    /\ UNCHANGED <<heap, viewers, nveh>>

NativeViewer_resume(w) ==
    LET s == viewers[w].playbackSlot IN
    /\ slots' = IF s = -1 THEN slots ELSE [slots EXCEPT ![s].paused = 0]
    /\ last' = [op |-> "resume", who |-> w, ret |-> "void", aux |-> s]
    /\ UNCHANGED <<heap, viewers, nveh>>

NativeViewer_setPlaybackSpeed(w, speed) ==
    LET s == viewers[w].playbackSlot IN
    /\ slots' = IF s = -1 THEN slots ELSE [slots EXCEPT ![s].speed = speed]
    /\ last' = [op |-> "setPlaybackSpeed", who |-> w, ret |-> "void",
                aux |-> s]
    /\ UNCHANGED <<heap, viewers, nveh>>

NativeViewer_stopAllPlaybacks ==
    /\ slots' = [i \in Slots |-> IF slots[i].goingOn # 0
                                 THEN ReleasedSlot(slots[i]) ELSE slots[i]]
    /\ last' = [op |-> "stopAllPlaybacks", who |-> 0, ret |-> "void",
                aux |-> -1]
    /\ UNCHANGED <<heap, viewers, nveh>>

\* A slot in which the game runs one of its own playbacks
\* (car.startPlayback(pathId) -> CVehicleRecording::StartPlaybackRecordedCar).
HostSlot ==
    [EmptySlot EXCEPT !.vehicle = NumNVehicles + 1, !.buffer = HostData,
                      !.size = FRAME_SIZE, !.speed = 10, !.goingOn = 1]

\* The game ends one of its own playbacks.
Host_StopPlaybackRecordedCar(s) ==
    /\ slots[s].goingOn # 0
    /\ slots' = [slots EXCEPT ![s] = EmptySlot]
    /\ last' = [op |-> "hostStop", who |-> 0, ret |-> "void", aux |-> s]
    /\ UNCHANGED <<heap, viewers, nveh>>

SlotsIdle ==
    /\ slots = [i \in Slots |-> EmptySlot]
    /\ viewers = [w \in Viewers |->
                    [allocatedMemory |-> NULL, playbackSlot |-> -1]]

SlotsInit ==
    /\ slots \in [Slots -> {EmptySlot, HostSlot}]
    /\ viewers = [w \in Viewers |->
                    [allocatedMemory |-> NULL, playbackSlot |-> -1]]

NVehInit ==
    nveh \in [NVehicles -> [flag7 : BOOLEAN, mission : {0}, field94 : {-1}]]

NVehIdle ==
    nveh = [v \in NVehicles |-> [flag7 |-> FALSE, mission |-> 0,
                                 field94 |-> -1]]

---------------------------------------------------------------------------
(* NativeCarRecordingInjector and the StreamingArray registry              *)

Entries == 0..(TOTAL_RRR_MODEL_IDS - 1)
Injectors == 1..NumInjectors
\* the loop bound of findUnusedFileNumber (999 in the game)
FileNumberLimit == initialFileNumber + IdRangeSize
\* the ids findUnusedFileNumber chooses from (900..998 in the game)
IdRange == initialFileNumber..(FileNumberLimit - 1)
\* the id of a recording of the game's own carrec.img
HostFileNumber == initialFileNumber - 1
\* file numbers a caller passes explicitly
ArgFileNumbers == {0, HostFileNumber, initialFileNumber}

EmptyPath == [number |-> 0, data |-> 0, size |-> 0, refCount |-> 0]

findFreeStreamingSlot_Reclaim(i) ==
    registry[i].number >= initialFileNumber /\ registry[i].data = 0

EntryIsFree(i) ==
    findFreeStreamingSlot_Reclaim(i) \/ registry[i].number = 0

findFreeStreamingSlot ==
    IF \E i \in Entries : EntryIsFree(i)
    THEN Min({i \in Entries : EntryIsFree(i)})
    ELSE -1

FileNumberInUse(n) ==
    \E i \in Entries : registry[i].number = n /\ registry[i].data # 0

\* findUnusedFileNumber scanning the range downward
findUnusedFileNumber_Largest ==
    LET free == {n \in initialFileNumber..(FileNumberLimit - 1) :
                    ~FileNumberInUse(n)} IN
    IF free # {} THEN Max(free) ELSE -1

\* -1 stands for the thrown "No available file numbers"
findUnusedFileNumber ==
    LET free == {n \in initialFileNumber..(FileNumberLimit - 1) :
                    ~FileNumberInUse(n)} IN
    IF free # {} THEN Min(free) ELSE -1

InjectResult(j, ret, idx) ==
    [op |-> "injectIntoGame", who |-> j, ret |-> ret, aux |-> idx]

\* the first test of injectIntoGame left out
InjectReturnsEarly_Never(j) == FALSE

\* the first test of injectIntoGame: the recording is already injected
InjectReturnsEarly(j) == injectors[j].injectedFileNumber # NULL

Injector_injectIntoGame(j, arg, allocOk) ==
    LET idx == findFreeStreamingSlot
        fileNumber == IF arg = UNDEFINED THEN findUnusedFileNumber ELSE arg
    IN
    IF InjectReturnsEarly(j)
    THEN /\ last' = [InjectResult(j, "already",
                                  injectors[j].streamingArrayIndex)
                       EXCEPT !.aux = injectors[j].injectedFileNumber]
         /\ UNCHANGED <<heap, registry, numPlayBackFiles, injectors,
                        regRemovals>>
    ELSE IF idx = -1
    THEN /\ injectors' = [injectors EXCEPT ![j].streamingArrayIndex = -1]
         /\ last' = InjectResult(j, "NoFreeRegistryEntry", -1)
         /\ UNCHANGED <<heap, registry, numPlayBackFiles, regRemovals>>
    ELSE IF fileNumber = -1
    THEN /\ injectors' = [injectors EXCEPT ![j].streamingArrayIndex = idx]
         /\ last' = InjectResult(j, "IdRangeExhausted", idx)
         /\ UNCHANGED <<heap, registry, numPlayBackFiles, regRemovals>>
    ELSE IF ~allocOk
    THEN /\ injectors' = [injectors EXCEPT ![j].streamingArrayIndex = idx,
                                           ![j].allocatedMemory = 0]
         /\ last' = InjectResult(j, "AllocFailed", idx)
         /\ UNCHANGED <<heap, registry, numPlayBackFiles, regRemovals>>
    ELSE /\ HasFreshAddr
         /\ LET a == FreshAddr IN
            /\ heap' = Tabled(CMemoryMgrMalloc(heap, a, j), a)
            /\ registry' = [registry EXCEPT ![idx] =
                              [number |-> fileNumber, data |-> a,
                               size |-> FrameCount(j) * FRAME_SIZE,
                               refCount |-> 0]]
            /\ numPlayBackFiles' = numPlayBackFiles + 1
            /\ injectors' = [injectors EXCEPT
                               ![j].streamingArrayIndex = idx,
                               ![j].allocatedMemory = a,
                               ![j].injectedFileNumber = fileNumber]
            /\ last' = InjectResult(j, "ok", idx)
            /\ UNCHANGED regRemovals

\* the first test of removeFromGame with the file number left out
RemoveReturnsEarly_IndexOnly(j) == injectors[j].streamingArrayIndex = -1

\* injectedFileNumber === null || streamingArrayIndex === -1
RemoveReturnsEarly(j) ==
    \/ injectors[j].injectedFileNumber = NULL
    \/ injectors[j].streamingArrayIndex = -1

Injector_removeFromGame(j) ==
    LET idx == injectors[j].streamingArrayIndex
        mem == injectors[j].allocatedMemory IN
    IF RemoveReturnsEarly(j)
    THEN /\ last' = [op |-> "removeFromGame", who |-> j, ret |-> "not injected",
                     aux |-> -1]
         /\ UNCHANGED <<heap, registry, numPlayBackFiles, injectors,
                        regRemovals>>
    ELSE /\ heap' = IF mem # NULL
                    THEN CMemoryMgrFree(heap, mem, registry[idx].refCount > 0)
                    ELSE heap
         /\ registry' = [registry EXCEPT ![idx] = EmptyPath]
         /\ numPlayBackFiles' = Max({0, numPlayBackFiles - 1})
         /\ injectors' = [injectors EXCEPT ![j].allocatedMemory = NULL,
                                           ![j].injectedFileNumber = NULL,
                                           ![j].streamingArrayIndex = -1]
         /\ regRemovals' = TRUE
         /\ last' = [op |-> "removeFromGame", who |-> j, ret |-> "removed",
                     aux |-> idx]

\* the playback menu loads a recording: the injector held under j is
\* dropped for a new one, which has injected nothing (the buffer the file
\* is read into is freed within loadFromFile)
Menu_loadRecording(j) ==
    /\ injectors' = [injectors EXCEPT ![j] =
                        [allocatedMemory |-> NULL, injectedFileNumber |-> NULL,
                         streamingArrayIndex |-> -1]]
    /\ last' = [op |-> "loadRecording", who |-> j, ret |-> "injector",
                aux |-> -1]
    /\ UNCHANGED <<heap, registry, numPlayBackFiles, regRemovals>>

\* CPath::RemoveRef as the repository documents it: the count goes down and
\* at zero the game frees the data with CMemoryMgr::Free and clears it.
RemoveRef(p) ==
    IF p.refCount - 1 <= 0
    THEN [p EXCEPT !.refCount = p.refCount - 1, !.data = 0]
    ELSE [p EXCEPT !.refCount = p.refCount - 1]

FindRecording(n) ==
    IF \E i \in Entries : registry[i].number = n
    THEN Min({i \in Entries : registry[i].number = n})
    ELSE -1

\* car.startPlayback(fileNumber): path->AddRef()
Host_AddRef(n) ==
    LET i == FindRecording(n) IN
    /\ i # -1
    /\ registry[i].data # 0
    /\ registry[i].refCount < MaxRefs
    /\ registry' = [registry EXCEPT ![i].refCount = @ + 1]
    /\ last' = [op |-> "hostAddRef", who |-> 0, ret |-> "void", aux |-> i]
    /\ UNCHANGED <<heap, numPlayBackFiles, injectors, regRemovals>>

\* the playback of entry i stops or finishes: path->RemoveRef()
Host_StopPlayback(i) ==
    /\ registry[i].refCount > 0
    /\ heap' = IF RemoveRef(registry[i]).data = 0
               THEN CMemoryMgrFree(heap, registry[i].data, FALSE)
               ELSE heap
    /\ registry' = [registry EXCEPT ![i] = RemoveRef(registry[i])]
    /\ regRemovals' = TRUE
    /\ last' = [op |-> "hostStopPlayback", who |-> 0, ret |-> "void",
                aux |-> i]
    /\ UNCHANGED <<numPlayBackFiles, injectors>>

\* Streaming.RemoveCarRecording(fileNumber): RemoveRef on the entry that
\* holds the recording.
Host_RemoveCarRecording(n) ==
    LET i == FindRecording(n) IN
    /\ i # -1
    /\ registry[i].data # 0
    /\ heap' = IF RemoveRef(registry[i]).data = 0
               THEN CMemoryMgrFree(heap, registry[i].data, FALSE)
               ELSE heap
    /\ registry' = [registry EXCEPT ![i] = RemoveRef(registry[i])]
    /\ regRemovals' = TRUE
    /\ last' = [op |-> "hostRemoveCarRecording", who |-> 0, ret |-> "void",
                aux |-> i]
    /\ UNCHANGED <<numPlayBackFiles, injectors>>

\* an entry of the game's own carrec.img, not loaded
HostPath == [EmptyPath EXCEPT !.number = HostFileNumber]
\* an entry another script injected under the first id of the range
OtherPath == [EmptyPath EXCEPT !.number = initialFileNumber,
                               !.data = HostData, !.size = FRAME_SIZE]

RegistryInit ==
    /\ \E p \in {EmptyPath, HostPath, OtherPath} :
          registry = [i \in Entries |-> IF i = 0 THEN p ELSE EmptyPath]
    /\ numPlayBackFiles = Cardinality({i \in Entries : registry[i].number # 0})
    /\ injectors = [j \in Injectors |->
                      [allocatedMemory |-> NULL, injectedFileNumber |-> NULL,
                       streamingArrayIndex |-> -1]]
    /\ regRemovals = FALSE

\* what the game or another script can have left in an entry: untouched,
\* a recording another injector put there with injectIntoGame(0), or a
\* number of the game's own files or of the reserved range, with the data
\* loaded or released
PathInits ==
    {EmptyPath,
     [EmptyPath EXCEPT !.data = HostData, !.size = FRAME_SIZE]} \cup
    {[number |-> n, data |-> d, size |-> IF d = 0 THEN 0 ELSE FRAME_SIZE,
      refCount |-> 0] :
        n \in {HostFileNumber} \cup initialFileNumber..(FileNumberLimit - 1),
        d \in {0, HostData}}

\* entries of the game's own files, numbered below and above the reserved
\* range, with the data loaded or released
HostPathInits ==
    {[number |-> n, data |-> d, size |-> IF d = 0 THEN 0 ELSE FRAME_SIZE,
      refCount |-> 0] :
        n \in {HostFileNumber, FileNumberLimit}, d \in {0, HostData}}

\* the registry as an injector can find it at script start, its entries
\* drawn from S
RegistryFoundIn(S) ==
    /\ registry \in [Entries -> S]
    /\ numPlayBackFiles = Cardinality({i \in Entries : registry[i].data # 0})
    /\ injectors = [j \in Injectors |->
                      [allocatedMemory |-> NULL, injectedFileNumber |-> NULL,
                       streamingArrayIndex |-> -1]]
    /\ regRemovals = FALSE

RegistryFound == RegistryFoundIn(PathInits)

RegistryIdle ==
    /\ registry = [i \in Entries |-> EmptyPath]
    /\ numPlayBackFiles = 0
    /\ injectors = [j \in Injectors |->
                      [allocatedMemory |-> NULL, injectedFileNumber |-> NULL,
                       streamingArrayIndex |-> -1]]
    /\ regRemovals = FALSE

---------------------------------------------------------------------------
(* Recordings and the vehicle of the script-side viewers                   *)

\* longest deltaTime passed to update, in ms
MaxDeltaTime == 2
\* how far Date.now() runs
MaxNow == 6

\* clock units per millisecond: the playback clock and the speed multiplier
\* are kept in tenths
Tenths == 10

\* One frame.  x stands for every interpolated channel but the velocity
\* (position, orientation, steering, pedals), vel for the velocity, hb for
\* the handbrake.
Frame(t, x, vel, hb) == [time |-> t, x |-> x, vel |-> vel, hb |-> hb]

RecEmpty == <<>>
RecOne == <<Frame(2, 1, 3, FALSE)>>
RecA == <<Frame(0, 1, 3, FALSE), Frame(2, 2, 5, TRUE), Frame(4, 4, 9, FALSE)>>
\* the first frame was captured after the recording had started
RecLate == <<Frame(1, 1, 3, FALSE), Frame(3, 2, 5, TRUE)>>
\* two frames captured in the same millisecond
RecFlat == <<Frame(0, 1, 3, FALSE), Frame(0, 2, 5, TRUE), Frame(2, 3, 7, FALSE)>>

Recordings == {RecEmpty, RecOne, RecA, RecLate, RecFlat}

getFrameCount == Len(recording)

getDuration ==
    IF Len(recording) = 0 THEN 0 ELSE recording[Len(recording)].time

\* exact fractions <<numerator, denominator>>, reduced
RECURSIVE GCD(_, _)
GCD(a, b) == IF b = 0 THEN a ELSE GCD(b, a % b)

Abs(a) == IF a < 0 THEN 0 - a ELSE a

Reduce(n, d) ==
    LET g == GCD(Abs(n), d) IN <<n \div g, d \div g>>

Zero == <<0, 1>>

\* lerp with its two ends exchanged
lerp_Swapped(a, b, t) == Reduce(b * t[2] + (a - b) * t[1], t[2])

lerp(a, b, t) == Reduce(a * t[2] + (b - a) * t[1], t[2])

\* the factor measured back from the later frame
BracketFactor_FromNext(time, currentTime, nextTime) ==
    IF nextTime - currentTime > 0
    THEN Reduce(nextTime - time, nextTime - currentTime)
    ELSE Zero

\* timeDiff > 0 ? (time - current.time) / timeDiff : 0
BracketFactor(time, currentTime, nextTime) ==
    IF nextTime - currentTime > 0
    THEN Reduce(time - currentTime, nextTime - currentTime)
    ELSE Zero

\* getInterpolationFrames(time), time in tenths of a millisecond; a record
\* with found = FALSE stands for undefined
getInterpolationFrames(time) ==
    LET n == Len(recording)
        B == {i \in 1..(n - 1) :
                /\ recording[i].time * Tenths <= time
                /\ time <= recording[i + 1].time * Tenths}
    IN
    IF n < 2
    THEN [found |-> FALSE, prev |-> 0, next |-> 0, factor |-> Zero]
    ELSE IF B # {}
    THEN LET i == Min(B)
         IN [found |-> TRUE, prev |-> i, next |-> i + 1,
             factor |-> BracketFactor(time, recording[i].time * Tenths,
                                      recording[i + 1].time * Tenths)]
    ELSE [found |-> TRUE, prev |-> n - 1, next |-> n, factor |-> <<1, 1>>]

\* what applyVehicleState writes into the vehicle
applyVehicleState(prevFrame, nextFrame, factor) ==
    [x |-> lerp(prevFrame.x, nextFrame.x, factor),
     vel |-> lerp(prevFrame.vel, nextFrame.vel, factor),
     hb |-> IF 2 * factor[1] < factor[2] THEN prevFrame.hb ELSE nextFrame.hb]

\* the position applyVehicleState interpolates (and does not write)
interpolatedPosition(prevFrame, nextFrame, factor) ==
    lerp(prevFrame.x, nextFrame.x, factor)

\* the vehicle with frame fr applied as it was recorded
FrameState(fr) == [x |-> <<fr.x, 1>>, vel |-> <<fr.vel, 1>>, hb |-> fr.hb]

\* a vehicle at rest that no viewer has written to
NoApplied == [x |-> Zero, vel |-> Zero, hb |-> FALSE]

CarInit ==
    \E f \in BOOLEAN :
        car = [status |-> "alive", disableCollisionForce |-> f,
               collidable |-> ~f, recordingId |-> -1, applied |-> NoApplied]

CarIdle ==
    car = [status |-> "alive", disableCollisionForce |-> FALSE,
           collidable |-> TRUE, recordingId |-> -1, applied |-> NoApplied]

\* Memory.GetVehiclePointer(vehicle) !== 0
HasVehiclePointer == car.status # "gone"

\* Car.IsDead(vehicle): wrecked, or the handle no longer names a vehicle
IsDead == car.status # "alive"

---------------------------------------------------------------------------
(* CarRecordingViewer driven by update(deltaTime)                          *)

DeltaTimes == 1..MaxDeltaTime
\* arguments of setPlaybackSpeed, in tenths
SpeedArgs == {5, 20, 200}
\* arguments of seekTo, in tenths of a millisecond
SeekArgs == {0 - 10, 15, 1000}

PlayerNew ==
    [isPlaying |-> FALSE, isPaused |-> FALSE, playbackVehicle |-> NULL,
     currentTime |-> 0, playbackSpeed |-> Tenths, looped |-> FALSE,
     currentFrameIndex |-> 0, driver |-> NULL]

MaxDuration ==
    Max({IF Len(r) = 0 THEN 0 ELSE r[Len(r)].time : r \in Recordings})

\* the elapsed playing time saturates just above twice the longest duration
ElapsedCap == 2 * MaxDuration * Tenths + 1

\* an advance of inc from elapsed playing time e passes the end of a lap
\* without landing on it
Crosses(e, inc) ==
    \E k \in 1..2 : e < k * getDuration * Tenths
                     /\ k * getDuration * Tenths < e + inc

HNew == [elapsed |-> 0, clean |-> FALSE, overshoot |-> FALSE]

PlayerCall(op, ret, wrote) ==
    [op |-> op, who |-> 0, ret |-> ret, aux |-> wrote]

\* the writes of startPlayback to the vehicle
StartFlags(c) ==
    IF HasVehiclePointer
    THEN [c EXCEPT !.disableCollisionForce = TRUE, !.collidable = FALSE,
                   !.recordingId = 0]
    ELSE c

\* the writes of stopPlayback to the vehicle
RestoreFlags(c) ==
    IF HasVehiclePointer
    THEN [c EXCEPT !.disableCollisionForce = FALSE, !.collidable = TRUE,
                   !.recordingId = -1]
    ELSE c

\* the fields stopPlayback resets
StoppedFields(p) ==
    [p EXCEPT !.isPlaying = FALSE, !.isPaused = FALSE,
              !.playbackVehicle = NULL, !.currentTime = 0,
              !.currentFrameIndex = 0, !.driver = NULL]

\* callers hand startPlayback a vehicle that exists
Player_startPlayback(looped) ==
    /\ car.status = "alive"
    /\ IF getFrameCount = 0
       THEN /\ last' = PlayerCall("startPlayback", "false", 0)
            /\ UNCHANGED <<car, player, hist>>
       ELSE LET firstFrame == recording[1]
                secondFrame == IF Len(recording) >= 2 THEN recording[2]
                               ELSE firstFrame
            IN
            /\ car' = [StartFlags(car) EXCEPT !.applied =
                         applyVehicleState(firstFrame, secondFrame, Zero)]
            /\ player' = [player EXCEPT !.playbackVehicle = 1,
                            !.isPlaying = TRUE, !.isPaused = FALSE,
                            !.looped = looped, !.currentTime = 0,
                            !.currentFrameIndex = 0, !.driver = 1]
            /\ hist' = [elapsed |-> 0, clean |-> TRUE, overshoot |-> FALSE]
            /\ last' = PlayerCall("startPlayback", "true", 1)
    /\ UNCHANGED <<recording, fviewer, now, fh>>

\* this.driver.delete() on a null driver throws after the fields are reset
Player_stopPlayback ==
    /\ car' = IF player.playbackVehicle # NULL THEN RestoreFlags(car) ELSE car
    /\ player' = StoppedFields(player)
    /\ hist' = [hist EXCEPT !.clean = FALSE]
    /\ last' = PlayerCall("stopPlayback",
                          IF player.driver = NULL THEN "TypeError" ELSE "void",
                          0)
    /\ UNCHANGED <<recording, fviewer, now, fh>>

\* pause() without its test of isPlaying
Player_pause_Unguarded ==
    /\ player' = [player EXCEPT !.isPaused = TRUE]
    /\ hist' = [hist EXCEPT !.clean = FALSE]
    /\ last' = PlayerCall("pause", "void", 0)
    /\ UNCHANGED <<recording, car, fviewer, now, fh>>

Player_pause ==
    /\ player' = IF player.isPlaying THEN [player EXCEPT !.isPaused = TRUE]
                 ELSE player
    /\ hist' = [hist EXCEPT !.clean = FALSE]
    /\ last' = PlayerCall("pause", "void", 0)
    /\ UNCHANGED <<recording, car, fviewer, now, fh>>

Player_resume ==
    /\ player' = [player EXCEPT !.isPaused = FALSE]
    /\ hist' = [hist EXCEPT !.clean = FALSE]
    /\ last' = PlayerCall("resume", "void", 0)
    /\ UNCHANGED <<recording, car, fviewer, now, fh>>

\* the clamp without its lower end
ClampSpeed_NoFloor(speed) == Min({100, speed})

\* Math.max(0.1, Math.min(10.0, speed)), in tenths
ClampSpeed(speed) == Max({1, Min({100, speed})})

Player_setPlaybackSpeed(speed) ==
    /\ player' = [player EXCEPT !.playbackSpeed = ClampSpeed(speed)]
    /\ last' = PlayerCall("setPlaybackSpeed", "void", 0)
    /\ UNCHANGED <<recording, car, hist, fviewer, now, fh>>

\* the frame index seekTo leaves: the first frame at or after the new clock
SeekIndex(t) ==
    LET S == {i \in 1..Len(recording) : recording[i].time * Tenths >= t} IN
    IF S # {} THEN Min(S) - 1 ELSE player.currentFrameIndex

Player_seekTo(time) ==
    LET t == Max({0, Min({time, getDuration * Tenths})}) IN
    /\ player' = [player EXCEPT !.currentTime = t,
                                !.currentFrameIndex = SeekIndex(t)]
    /\ hist' = [hist EXCEPT !.clean = FALSE]
    /\ last' = PlayerCall("seekTo", "void", 0)
    /\ UNCHANGED <<recording, car, fviewer, now, fh>>

\* the clock is left where the end of the recording found it
LoopWrap_NoReset(t) == t

\* the clock of a looped playback that has reached the end
LoopWrap(t) == 0

\* the pause test is left out of update's first line
UpdateReturnsEarly_IgnoresPause ==
    ~player.isPlaying \/ player.playbackVehicle = NULL

\* update's first line: nothing to do
UpdateReturnsEarly ==
    ~player.isPlaying \/ player.isPaused \/ player.playbackVehicle = NULL

Player_update(deltaTime) ==
    LET t == player.currentTime + deltaTime * player.playbackSpeed
        atEnd == t >= getDuration * Tenths
        t2 == IF atEnd THEN LoopWrap(t) ELSE t
    IN
    /\ IF UpdateReturnsEarly
       THEN /\ last' = PlayerCall("update", "void", 0)
            /\ UNCHANGED <<car, player, hist>>
       ELSE IF IsDead
       THEN /\ car' = RestoreFlags(car)
            /\ player' = StoppedFields(player)
            /\ last' = PlayerCall("update", "void", 0)
            /\ UNCHANGED hist
       ELSE IF atEnd /\ ~player.looped
       THEN /\ car' = RestoreFlags(car)
            /\ player' = StoppedFields(player)
            /\ hist' = [hist EXCEPT !.elapsed =
                        Min({ElapsedCap,
                             @ + deltaTime * player.playbackSpeed})]
            /\ last' = PlayerCall("update", "void", 0)
       ELSE \E data \in {getInterpolationFrames(t2)} :
            /\ player' = [player EXCEPT
                            !.currentTime = t2,
                            !.currentFrameIndex = IF atEnd THEN 0 ELSE @]
            /\ hist' = [hist EXCEPT
                       !.elapsed = Min({ElapsedCap,
                                        @ + deltaTime * player.playbackSpeed}),
                       !.overshoot =
                           @ \/ Crosses(hist.elapsed,
                                        deltaTime * player.playbackSpeed)]
            /\ car' = IF data.found
                      THEN [car EXCEPT !.applied =
                              applyVehicleState(recording[data.prev],
                                                recording[data.next],
                                                data.factor)]
                      ELSE car
            /\ last' = PlayerCall("update", "void",
                                  IF data.found THEN 1 ELSE 0)
    /\ UNCHANGED <<recording, fviewer, now, fh>>

\* the game wrecks the vehicle or deletes it
Car_Destroyed(how) ==
    /\ car.status = "alive"
    /\ car' = [car EXCEPT !.status = how]
    /\ hist' = [hist EXCEPT !.clean = FALSE]
    /\ last' = PlayerCall("vehicleDestroyed", "void", 0)
    /\ UNCHANGED <<recording, player, fviewer, now, fh>>

---------------------------------------------------------------------------
(* CarRecordingViewer driven by the wall clock                             *)

\* what update returns when the playback has ended
EndedSentinel == -1

FViewerNew(loop) ==
    [isPlaying |-> FALSE, isPaused |-> FALSE, startTime |-> 0,
     pauseTime |-> 0, currentFrameIndex |-> 0, loop |-> loop, setFrame |-> 0]

\* no stop and no seek yet; seekClock is the timestamp of the frame last
\* sought plus the playing time since, -1 without a seek on this playback
FHNew == [how |-> "none", seekClock |-> -1]

FrameCall(op, ret) == [op |-> op, who |-> 0, ret |-> "number", aux |-> ret]

\* the fields start() assigns
Started_start(v) ==
    [v EXCEPT !.isPlaying = TRUE, !.isPaused = FALSE, !.startTime = now,
              !.currentFrameIndex = 0, !.setFrame = 0]

Frame_start ==
    /\ fviewer' = Started_start(fviewer)
    /\ fh' = FHNew
    /\ last' = [FrameCall("start", 0) EXCEPT !.ret = "void"]
    /\ UNCHANGED <<recording, car, player, hist, now>>

Frame_stop ==
    /\ fviewer' = [fviewer EXCEPT !.isPlaying = FALSE, !.isPaused = FALSE]
    /\ fh' = IF fviewer.isPlaying THEN [FHNew EXCEPT !.how = "stopped"]
             ELSE fh
    /\ last' = [FrameCall("stop", 0) EXCEPT !.ret = "void"]
    /\ UNCHANGED <<recording, car, player, hist, now>>

Frame_pause ==
    /\ fviewer' = IF fviewer.isPlaying /\ ~fviewer.isPaused
                  THEN [fviewer EXCEPT !.isPaused = TRUE, !.pauseTime = now]
                  ELSE fviewer
    /\ last' = [FrameCall("pause", 0) EXCEPT !.ret = "void"]
    /\ UNCHANGED <<recording, car, player, hist, now, fh>>

Frame_resume ==
    /\ fviewer' = IF fviewer.isPlaying /\ fviewer.isPaused
                  THEN [fviewer EXCEPT
                          !.isPaused = FALSE,
                          !.startTime = @ + (now - fviewer.pauseTime)]
                  ELSE fviewer
    /\ last' = [FrameCall("resume", 0) EXCEPT !.ret = "void"]
    /\ UNCHANGED <<recording, car, player, hist, now, fh>>

Frame_seekToFrame(frameIndex) ==
    /\ fviewer' =
         IF frameIndex >= 0 /\ frameIndex < getFrameCount
         THEN [fviewer EXCEPT
                 !.setFrame = frameIndex,
                 !.currentFrameIndex = frameIndex,
                 !.startTime = IF fviewer.isPlaying
                               THEN now - recording[frameIndex + 1].time
                               ELSE @]
         ELSE fviewer
    /\ fh' = IF frameIndex >= 0 /\ frameIndex < getFrameCount
                /\ fviewer.isPlaying
             THEN [fh EXCEPT !.seekClock = recording[frameIndex + 1].time]
             ELSE fh
    /\ last' = [FrameCall("seekToFrame", 0) EXCEPT !.ret = "void"]
    /\ UNCHANGED <<recording, car, player, hist, now>>

\* the index the while loop of findFrameForTime skips ahead to
RECURSIVE SkipAhead(_, _)
SkipAhead(idx, time) ==
    IF idx < getFrameCount - 1 /\ recording[idx + 2].time <= time
    THEN SkipAhead(idx + 1, time)
    ELSE idx

\* findFrameForTime(time), started from frame index idx
findFrameForTime(idx, time) ==
    LET i == SkipAhead(idx, time) IN
    IF getFrameCount = 0 THEN -1
    ELSE IF i < 0 \/ i >= getFrameCount THEN -1
    ELSE IF i >= getFrameCount - 1 /\ time > recording[getFrameCount].time
    THEN -1
    ELSE i

applyFrameDynamic(frame) == FrameState(frame)

applyFrameStatic(frame) == [FrameState(frame) EXCEPT !.vel = Zero]

Frame_update ==
    LET elapsedTime == now - fviewer.startTime
        seek == fviewer.setFrame > 0 /\ fviewer.setFrame < getFrameCount
        v1 == IF seek
              THEN [fviewer EXCEPT
                      !.startTime = now - recording[fviewer.setFrame + 1].time,
                      !.currentFrameIndex = fviewer.setFrame,
                      !.setFrame = 0]
              ELSE [fviewer EXCEPT !.setFrame = 0]
        targetFrame == findFrameForTime(v1.currentFrameIndex, elapsedTime)
    IN
    /\ IF ~fviewer.isPlaying
       THEN /\ last' = FrameCall("update", EndedSentinel)
            /\ UNCHANGED <<car, fviewer, fh>>
       ELSE IF fviewer.isPaused
       THEN /\ car' = IF fviewer.currentFrameIndex < getFrameCount
                      THEN [car EXCEPT !.applied = applyFrameStatic(
                              recording[fviewer.currentFrameIndex + 1])]
                      ELSE car
            /\ last' = FrameCall("update", fviewer.currentFrameIndex)
            /\ UNCHANGED <<fviewer, fh>>
       ELSE IF targetFrame = -1
       THEN IF fviewer.loop
            THEN /\ fviewer' = Started_start(v1)
                 /\ last' = FrameCall("update", 0)
                 /\ fh' = [fh EXCEPT !.seekClock = -1]
                 /\ UNCHANGED car
            ELSE /\ fviewer' = [v1 EXCEPT
                      !.isPlaying = FALSE, !.isPaused = FALSE,
                      !.currentFrameIndex =
                          IF getFrameCount = 0 THEN @
                          ELSE SkipAhead(v1.currentFrameIndex, elapsedTime)]
                 /\ fh' = [FHNew EXCEPT !.how = "ended"]
                 /\ last' = FrameCall("update", EndedSentinel)
                 /\ UNCHANGED car
       ELSE /\ fviewer' = [v1 EXCEPT !.currentFrameIndex = targetFrame]
            /\ car' = [car EXCEPT !.applied =
                         IF elapsedTime > 0
                         THEN applyFrameDynamic(recording[targetFrame + 1])
                         ELSE applyFrameStatic(recording[targetFrame + 1])]
            /\ last' = FrameCall("update", targetFrame)
            /\ UNCHANGED fh
    /\ UNCHANGED <<recording, player, hist, now>>

\* time passes between two calls
Tick ==
    /\ now < MaxNow
    /\ now' = now + 1
    /\ fh' = IF fviewer.isPlaying /\ ~fviewer.isPaused /\ fh.seekClock >= 0
             THEN [fh EXCEPT !.seekClock = @ + 1]
             ELSE fh
    /\ UNCHANGED <<recording, car, player, hist, fviewer, last>>

PlayIdle ==
    /\ recording = RecEmpty
    /\ CarIdle
    /\ player = PlayerNew
    /\ hist = HNew
    /\ fviewer = FViewerNew(FALSE)
    /\ now = 0
    /\ fh = FHNew

---------------------------------------------------------------------------
(* The two recorders, sampled against the game timer                       *)

MaxTimer == 6              \* the game timer is followed up to this value
MaxTimerStep == 2          \* game time between two calls of the main loop
MaxWait == 1               \* game time that passes in the wait(0) calls
MaxMaxFrames == 2          \* largest maxFrames a recorder is built with
BASE_INTERVAL_MS == 2      \* scaled from 100
RANDOM_INTERVAL_MAX == 2   \* scaled from 50
KEY_RELEASE_THRESHOLD == 3 \* scaled from 500

\* CarRecording.clear(), applied to the frames of a recording
clear_KeepsFrames(frames) == frames

clear(frames) == <<>>

\* CarRecording.addFrame; a frame is stood for by its timestamp
addFrame(frames, time) == Append(frames, time)

\* written holds the frames whose records have been appended through the
\* open file handle, and is empty when no file is open
RecorderNew ==
    [isRecording |-> FALSE, fileHandle |-> FALSE, recordingStartTime |-> 0,
     lastRecordTime |-> 0, nextRecordingInterval |-> 0,
     lastKeyCheckTime |-> 0, frames |-> <<>>, written |-> <<>>]

RecorderCall(op, ret) == [op |-> op, who |-> 0, ret |-> "boolean", aux |-> ret]

\* stopRecording(), as a function of the recorder
stopRecording(r) ==
    IF ~r.isRecording THEN r
    ELSE [r EXCEPT !.isRecording = FALSE, !.fileHandle = FALSE,
                   !.written = <<>>]

\* startRecording(): found tells whether FindFile.First found a file, wt is
\* the game time that passes in the wait(0) calls of the search loop, opened
\* is the outcome of File.Open.  Returns the recorder and the timer.
startRecording(r, t, found, wt, opened) ==
    LET r1 == [r EXCEPT !.frames = clear(@),
                        !.recordingStartTime = t,
                        !.lastRecordTime = t,
                        !.nextRecordingInterval = 0]
        t1 == IF found THEN t + wt ELSE t
    IN  <<IF opened THEN [r1 EXCEPT !.fileHandle = TRUE, !.isRecording = TRUE]
          ELSE r1,
          t1>>

\* calculateNextInterval() without the base interval
calculateNextInterval_JitterOnly(random) == random

\* calculateNextInterval(): random is Math.floor(Math.random() * max)
calculateNextInterval(random) == BASE_INTERVAL_MS + random

\* writeBufferToFile(frame.toBuffer()): wrote is false when Memory.Allocate
\* returns 0 or writeBlock fails, and the record is then not appended
writeBufferToFile(r, time, wrote) ==
    IF ~r.fileHandle \/ ~wrote THEN r.written ELSE Append(r.written, time)

\* processRecording() at game time t: captured is false when recordFrame
\* returns before addFrame (player not in a car, no vehicle pointer, or an
\* exception caught)
processRecording(r, t, captured, random, wrote) ==
    IF t - r.lastRecordTime >= r.nextRecordingInterval
    THEN [r EXCEPT
            !.frames = IF captured
                       THEN addFrame(@, t - r.recordingStartTime) ELSE @,
            !.written = IF captured
                        THEN writeBufferToFile(r, t - r.recordingStartTime,
                                               wrote)
                        ELSE @,
            !.lastRecordTime = t,
            !.nextRecordingInterval = calculateNextInterval(random)]
    ELSE r

\* checkToggleRecording(): SHIFT+R is taken as a toggle
ToggleDue(inCar, keys) ==
    /\ inCar /\ keys
    /\ timer - recorder.lastKeyCheckTime >= KEY_RELEASE_THRESHOLD

\* what startRecording can meet: no file found, or a file found and some
\* game time spent in the search loop; File.Open succeeds or fails
StartOutcomes ==
    ({<<FALSE, 0>>} \cup {<<TRUE, wt>> : wt \in 0..MaxWait}) \X BOOLEAN

\* what a sample can meet: recordFrame adds a frame or returns without
\* one, and Math.random() picks the next interval
SampleOutcomes == BOOLEAN \X (0..(RANDOM_INTERVAL_MAX - 1))

\* the same with the outcome of the write to the file: the record of a
\* frame added reaches the file or does not
FileSampleOutcomes ==
    {o \in SampleOutcomes \X BOOLEAN : o[1][1] \/ o[2]}

\* this update can reach the sampling branch of processRecording: the
\* recorder is recording after checkToggleRecording and, unless it has
\* just been started, the interval has passed
SampleDue(inCar, keys) ==
    /\ inCar
    /\ IF ToggleDue(inCar, keys) THEN ~recorder.isRecording
       ELSE /\ recorder.isRecording
            /\ timer - recorder.lastRecordTime
                 >= recorder.nextRecordingInterval

\* update(): checkToggleRecording, then processRecording while recording
Recorder_update(inCar, keys, found, wt, opened, captured, random, wrote) ==
    LET toggle == ToggleDue(inCar, keys)
        started == startRecording(recorder, timer, found, wt, opened)
        r1 == IF ~inCar THEN stopRecording(recorder)
              ELSE IF ~toggle THEN recorder
              ELSE [(IF recorder.isRecording THEN stopRecording(recorder)
                     ELSE started[1])
                    EXCEPT !.lastKeyCheckTime = timer]
        t1 == IF toggle /\ ~recorder.isRecording THEN started[2] ELSE timer
        r2 == IF r1.isRecording
              THEN processRecording(r1, t1, captured, random, wrote)
              ELSE r1
    IN
    /\ t1 <= MaxTimer
    /\ recorder' = r2
    /\ timer' = t1
    /\ last' = RecorderCall("update", IF r2.isRecording THEN 1 ELSE 0)
    /\ UNCHANGED mrecorder

MRecorderNew(maxFrames) ==
    [isRecording |-> FALSE, startTime |-> 0, maxFrames |-> maxFrames,
     frames |-> <<>>]

MRecorderCall(op, ret) ==
    [op |-> op, who |-> 1, ret |-> "boolean", aux |-> ret]

MRecorder_start ==
    /\ mrecorder' = [mrecorder EXCEPT !.isRecording = TRUE,
                                      !.startTime = timer,
                                      !.frames = clear(@)]
    /\ last' = [MRecorderCall("start", 0) EXCEPT !.ret = "void"]
    /\ UNCHANGED <<timer, recorder>>

MRecorder_stop ==
    /\ mrecorder' = [mrecorder EXCEPT !.isRecording = FALSE]
    /\ last' = [MRecorderCall("stop", 0) EXCEPT !.ret = "void"]
    /\ UNCHANGED <<timer, recorder>>

\* the memory test of update with > in the place of >=
MemoryFull_OffByOne(r) == Len(r.frames) > r.maxFrames

\* "memory is full"
MemoryFull(r) == Len(r.frames) >= r.maxFrames

\* captureFrame(): the timestamp of the frame captured
captureFrame(r, t) == t - r.startTime

MRecorder_update ==
    /\ IF ~mrecorder.isRecording
       THEN /\ last' = MRecorderCall("update", 1)
            /\ UNCHANGED mrecorder
       ELSE IF MemoryFull(mrecorder)
       THEN /\ last' = MRecorderCall("update", 0)
            /\ UNCHANGED mrecorder
       ELSE /\ mrecorder' = [mrecorder EXCEPT !.frames =
                               addFrame(@, captureFrame(mrecorder, timer))]
            /\ last' = MRecorderCall("update", 1)
    /\ UNCHANGED <<timer, recorder>>

\* the game runs between two iterations of the script's main loop
GameTimer_Advance(d) ==
    /\ timer + d <= MaxTimer
    /\ timer' = timer + d
    /\ UNCHANGED <<recorder, mrecorder, last>>

RecorderIdle ==
    /\ timer = 0
    /\ recorder = RecorderNew
    /\ mrecorder = MRecorderNew(0)

---------------------------------------------------------------------------
(* Fixed-point fields of the two frame layouts                             *)

\* A field value is n / ValueDen with n in -MaxValue..MaxValue: multiples of
\* 1/64 up to 7.0, which a double holds exactly, as it does their products
\* with the scales below.
MaxValue == 448
ValueDen == 64

\* DataView.setInt8 / setInt16: the low w bits, read as two's complement
ToInt(w, v) ==
    LET m == v % (2 ^ w) IN IF m >= 2 ^ (w - 1) THEN m - 2 ^ w ELSE m

\* DataView.setUint8: the low w bits
ToUint(w, v) == v % (2 ^ w)

\* Math.floor(value * scale), value = n / ValueDen, scale = sn / sd
FloorScaled(n, sn, sd) == (n * sn) \div (ValueDen * sd)

\* Math.round(value * scale) = floor(value * scale + 1/2)
RoundScaled(n, sn, sd) == (2 * n * sn + ValueDen * sd) \div (2 * ValueDen * sd)

\* Math.max(lo, Math.min(hi, v))
Clamp(lo, hi, v) == IF v < lo THEN lo ELSE IF v > hi THEN hi ELSE v

\* the fixed-point fields: layout, scale sn/sd, width, signedness, and
\* whether the value is rounded (else floored) and clamped before the write
Fields ==
    { [name |-> "velocity",      layout |-> 32, sn |-> 32767, sd |-> 2,
       w |-> 16, signed |-> TRUE,  round |-> FALSE, clamp |-> FALSE],
      [name |-> "right",         layout |-> 32, sn |-> 127,   sd |-> 1,
       w |-> 8,  signed |-> TRUE,  round |-> FALSE, clamp |-> FALSE],
      [name |-> "top",           layout |-> 32, sn |-> 127,   sd |-> 1,
       w |-> 8,  signed |-> TRUE,  round |-> FALSE, clamp |-> FALSE],
      [name |-> "steeringAngle", layout |-> 32, sn |-> 20,    sd |-> 1,
       w |-> 8,  signed |-> TRUE,  round |-> FALSE, clamp |-> FALSE],
      [name |-> "gasPedal",      layout |-> 32, sn |-> 100,   sd |-> 1,
       w |-> 8,  signed |-> FALSE, round |-> FALSE, clamp |-> FALSE],
      [name |-> "brakePedal",    layout |-> 32, sn |-> 100,   sd |-> 1,
       w |-> 8,  signed |-> FALSE, round |-> FALSE, clamp |-> FALSE],
      [name |-> "rotation",      layout |-> 48, sn |-> 30000, sd |-> 1,
       w |-> 16, signed |-> TRUE,  round |-> TRUE,  clamp |-> TRUE],
      [name |-> "movementSpeed", layout |-> 48, sn |-> 10000, sd |-> 1,
       w |-> 16, signed |-> TRUE,  round |-> TRUE,  clamp |-> TRUE],
      [name |-> "turnSpeed",     layout |-> 48, sn |-> 10000, sd |-> 1,
       w |-> 16, signed |-> TRUE,  round |-> TRUE,  clamp |-> TRUE],
      [name |-> "steeringAngle", layout |-> 48, sn |-> 20,    sd |-> 1,
       w |-> 8,  signed |-> TRUE,  round |-> TRUE,  clamp |-> FALSE],
      [name |-> "accelerator",   layout |-> 48, sn |-> 100,   sd |-> 1,
       w |-> 8,  signed |-> TRUE,  round |-> TRUE,  clamp |-> FALSE],
      [name |-> "brake",         layout |-> 48, sn |-> 100,   sd |-> 1,
       w |-> 8,  signed |-> TRUE,  round |-> TRUE,  clamp |-> FALSE] }

\* the range of the integers a field holds
FieldMin(f) == IF f.signed THEN 0 - 2 ^ (f.w - 1) ELSE 0
FieldMax(f) == IF f.signed THEN 2 ^ (f.w - 1) - 1 ELSE 2 ^ f.w - 1

\* the integer the frame's toBuffer computes before the DataView write
Scaled(f, n) ==
    LET v == IF f.round THEN RoundScaled(n, f.sn, f.sd)
             ELSE FloorScaled(n, f.sn, f.sd)
    IN  IF f.clamp THEN Clamp(FieldMin(f), FieldMax(f), v) ELSE v

\* the integer toBuffer leaves in the buffer for field f of value n
Encode(f, n) ==
    IF f.signed THEN ToInt(f.w, Scaled(f, n)) ELSE ToUint(f.w, Scaled(f, n))

NoField == [name |-> "none", layout |-> 0, sn |-> 1, sd |-> 1, w |-> 8,
            signed |-> FALSE, round |-> FALSE, clamp |-> FALSE]

\* Double arithmetic on a decoded field.  A field read back as the integer
\* q is the double nearest to q / scale, and toBuffer multiplies it by the
\* scale again; both operations round to 53 significant bits, ties to even.

MantissaBits == 52     \* fraction bits of a double

\* 2^k modulo b
RECURSIVE PowMod2(_, _)
PowMod2(k, b) == IF k = 0 THEN 1 % b ELSE (2 * PowMod2(k - 1, b)) % b

\* largest e >= 0 with 2^e <= a, for a >= 1
RECURSIVE FloorLog2(_)
FloorLog2(a) == IF a < 2 THEN 0 ELSE 1 + FloorLog2(a \div 2)

\* largest e, negative or not, with 2^e <= a / b, for a, b >= 1
RECURSIVE FloorLog2Frac(_, _)
FloorLog2Frac(a, b) ==
    IF a >= b THEN FloorLog2(a \div b) ELSE FloorLog2Frac(2 * a, b) - 1

\* The double q / scale for q >= 1 and scale = sn / sd: with er the exponent
\* of q / scale and k = 52 - er, the significand is q * sd * 2^k / sn rounded
\* to an integer; down tells whether it was rounded down (or was exact) and
\* D / sn is the distance it moved.  E is the exponent of q itself and pw
\* is 1 when q is a power of two.
Quotient(q, sn, sd) ==
    LET a == q * sd
        er == FloorLog2Frac(a, sn)
        k == MantissaBits - er
        rho == ((a % sn) * PowMod2(k, sn)) % sn
        rho2 == ((a % (2 * sn)) * PowMod2(k, 2 * sn)) % (2 * sn)
        even == (rho2 - rho) \div sn = 0
        down == 2 * rho < sn \/ (2 * rho = sn /\ even)
        E == FloorLog2(q)
    IN [down |-> down, D |-> IF down THEN rho ELSE sn - rho,
        gap |-> E - er, pw |-> IF q = 2 ^ E THEN 1 ELSE 0]

\* sign of (q / scale) * scale - q in double arithmetic, for q >= 1: the
\* exact product lies D / (sd * 2^k) from q and is rounded to q unless that
\* exceeds half the distance from q to the neighbouring double
ProductError(q, sn, sd) ==
    LET d == Quotient(q, sn, sd) IN
    IF d.down /\ 2 * d.D > sd * 2 ^ (d.gap - d.pw) THEN 0 - 1
    ELSE IF ~d.down /\ 2 * d.D > sd * 2 ^ d.gap THEN 1
    ELSE 0

\* Math.floor((q / scale) * scale)
FloorRescaled(q, sn, sd) ==
    IF q = 0 THEN 0
    ELSE IF q > 0
    THEN IF ProductError(q, sn, sd) < 0 THEN q - 1 ELSE q
    ELSE IF ProductError(0 - q, sn, sd) > 0 THEN q - 1 ELSE q

\* Math.round((q / scale) * scale): the product is within one unit in the
\* last place of the integer q
RoundRescaled(q, sn, sd) == q

\* what fromBuffer reads for a field from the integer toBuffer left:
\* getInt16 / getInt8 / getUint8; the field's value is this over the scale
Read(f, e) == IF f.signed THEN ToInt(f.w, e) ELSE ToUint(f.w, e)

\* the integer toBuffer computes for a field decoded from the integer q
Rescaled(f, q) ==
    LET v == IF f.round THEN RoundRescaled(q, f.sn, f.sd)
             ELSE FloorRescaled(q, f.sn, f.sd)
    IN  IF f.clamp THEN Clamp(FieldMin(f), FieldMax(f), v) ELSE v

\* the integer toBuffer leaves in the buffer for a field decoded from q
Reencode(f, q) ==
    IF f.signed THEN ToInt(f.w, Rescaled(f, q)) ELSE ToUint(f.w, Rescaled(f, q))

---------------------------------------------------------------------------
(* Decoding a buffer and loading a recording file                          *)

MaxBytes == 112            \* largest file: header, two 48-byte frames, 4 more
FRAME_SIZE_CR == 48        \* 0x30
HEADER_SIZE_CR == 12       \* 0x0C

\* values of the header's file-size field (INT32 at 0x04) that are tried
HeaderSizes == {0 - 48, 0, 47, 48, 96, 100, 144}

\* a thrown RangeError, a thrown Error, a returned recording of n frames
Thrown(what) == [ok |-> FALSE, frames |-> 0, ret |-> what]
Decoded(n) == [ok |-> TRUE, frames |-> n, ret |-> "CarRecording"]

\* VehicleStateEachFrame.fromBuffer(slice): its DataView reads run up to
\* byte 32 of the slice and throw a RangeError past its end
FrameReadable(sliceLength) == sliceLength >= FRAME_SIZE

\* CarRecording.fromBuffer(buffer) of the 32-byte layout, for a buffer of
\* byteLength bytes: i runs while i < byteLength / 32 (not rounded), and
\* buffer.slice stops at the end of the buffer
fromBuffer(byteLength) ==
    LET iterations == (byteLength + FRAME_SIZE - 1) \div FRAME_SIZE
        sliceLength(i) ==
            IF (i + 1) * FRAME_SIZE <= byteLength THEN FRAME_SIZE
            ELSE byteLength - i * FRAME_SIZE
    IN  IF \E i \in 0..(iterations - 1) : ~FrameReadable(sliceLength(i))
        THEN Thrown("RangeError")
        ELSE Decoded(iterations)

\* Math.floor(fileSize / 0x30)
FrameCountCr(fileSize) == fileSize \div FRAME_SIZE_CR

\* CarRecording.fromBuffer(buffer) of the 48-byte layout: the header is
\* read first, the frame count comes from the header's file size, and
\* new DataView(buffer, offset, 0x30) throws past the end of the buffer
fromBuffer_cr(byteLength, fileSize) ==
    LET frameCount == FrameCountCr(fileSize) IN
    IF byteLength < HEADER_SIZE_CR THEN Thrown("RangeError")
    ELSE IF \E i \in 0..(frameCount - 1) :
              HEADER_SIZE_CR + i * FRAME_SIZE_CR + FRAME_SIZE_CR > byteLength
    THEN Thrown("RangeError")
    ELSE Decoded(IF frameCount < 0 THEN 0 ELSE frameCount)

\* who is the layout decoded (32 or 48) or the class loading (4 for the
\* injector, 1 for the native viewer); aux is the number of frames
LoadCall(op, who, r) == [op |-> op, who |-> who, ret |-> r.ret, aux |-> r.frames]

Decode_fromBuffer ==
    /\ file.opens
    /\ last' = LoadCall("fromBuffer", 32, fromBuffer(file.size))
    /\ UNCHANGED <<heap, file>>

Decode_fromBuffer_cr ==
    /\ file.opens
    /\ last' = LoadCall("fromBuffer", 48,
                        fromBuffer_cr(file.size, file.header))
    /\ UNCHANGED <<heap, file>>

\* loadFromFile(filePath) of the injector and of the native viewer, which
\* are the same code: what it returns or throws, and the heap it leaves
loadFromFile(allocOk, built) ==
    IF ~file.opens THEN <<Thrown("Error"), heap>>
    ELSE IF file.size = 0 THEN <<Thrown("undefined"), heap>>
    ELSE IF ~allocOk THEN <<Thrown("undefined"), heap>>
    ELSE LET r == fromBuffer(file.size)
             h == MemoryFree(MemoryAllocate(heap, FreshAddr, 0), FreshAddr)
         IN  <<IF r.ok THEN [r EXCEPT !.ret = built] ELSE r, h>>

Injector_loadFromFile(allocOk) ==
    LET r == loadFromFile(allocOk, "NativeCarRecordingInjector") IN
    /\ HasFreshAddr
    /\ last' = LoadCall("loadFromFile", 4, r[1])
    /\ heap' = r[2]
    /\ UNCHANGED file

NativeViewer_loadFromFile(allocOk) ==
    LET r == loadFromFile(allocOk, "NativeCarRecordingViewer") IN
    /\ HasFreshAddr
    /\ last' = LoadCall("loadFromFile", 1, r[1])
    /\ heap' = r[2]
    /\ UNCHANGED file

NoFile == [opens |-> FALSE, size |-> 0, header |-> 0]

Files ==
    {NoFile} \cup
    {[opens |-> TRUE, size |-> n, header |-> hs] :
        n \in 0..MaxBytes, hs \in HeaderSizes}

FileIdle == file = NoFile

---------------------------------------------------------------------------
(* A recording written to a buffer and read back, followed for one field  *)
(* of one of its frames                                                    *)

MaxCount == 2          \* most frames in the recording written

\* the fields stored without a scale
ExactFields ==
    { [name |-> "time",      layout |-> 32, sn |-> 1, sd |-> 1,
       w |-> 32, signed |-> FALSE, round |-> FALSE, clamp |-> FALSE],
      [name |-> "handbrake", layout |-> 32, sn |-> 1, sd |-> 1,
       w |-> 8,  signed |-> FALSE, round |-> FALSE, clamp |-> FALSE],
      [name |-> "position",  layout |-> 32, sn |-> 1, sd |-> 1,
       w |-> 32, signed |-> TRUE,  round |-> FALSE, clamp |-> FALSE],
      [name |-> "timestamp", layout |-> 48, sn |-> 1, sd |-> 1,
       w |-> 32, signed |-> TRUE,  round |-> FALSE, clamp |-> FALSE],
      [name |-> "handBrake", layout |-> 48, sn |-> 1, sd |-> 1,
       w |-> 8,  signed |-> TRUE,  round |-> FALSE, clamp |-> FALSE],
      [name |-> "position",  layout |-> 48, sn |-> 1, sd |-> 1,
       w |-> 32, signed |-> TRUE,  round |-> FALSE, clamp |-> FALSE] }

IsTime(f) == f.name \in {"time", "timestamp"}
IsFlag(f) == f.name \in {"handbrake", "handBrake"}
IsPosition(f) == f.name = "position"

\* The values a field is given.  A fixed-point field or a position
\* component is n / ValueDen; a timestamp is a whole number of milliseconds
\* since the recording started; the handbrake of the 32-byte layout is a
\* boolean (0 or 1) and that of the 48-byte layout a status byte.
FieldValues(f) ==
    IF IsTime(f) THEN 0..MaxValue
    ELSE IF f.name = "handbrake" THEN {0, 1}
    ELSE IF f.name = "handBrake" THEN 0..255
    ELSE (0 - MaxValue)..MaxValue

SignificandBits == 24      \* significant bits of a float32

\* DataView.setFloat32 of the double a / b (b >= 1): the float32 nearest to
\* it, ties to even, as the significand m and the exponent with
\* value = m / 2^exp; the values written stay within the float32 exponents
ToFloat32(a, b) ==
    IF a = 0 THEN [m |-> 0, exp |-> 0]
    ELSE LET r == Reduce(a, b)
             n == Abs(r[1])
             d == r[2]
             k == SignificandBits - 1 - FloorLog2Frac(n, d)
             exact == (2 ^ k) % d = 0
             num == n * 2 ^ k
             fl == num \div d
             rem == num % d
             up == 2 * rem > d \/ (2 * rem = d /\ fl % 2 = 1)
             m == IF exact THEN n * ((2 ^ k) \div d)
                  ELSE IF up THEN fl + 1 ELSE fl
         IN [m |-> IF a < 0 THEN 0 - m ELSE m, exp |-> k]

\* DataView.setUint32 / setInt32 of a whole number v, 0 <= v < 2^31: the
\* four bytes, least significant first
Bytes4(v) ==
    <<v % 256, (v \div 256) % 256, (v \div 65536) % 256,
      (v \div 16777216) % 256>>

\* DataView.getUint32 / getInt32 of four bytes whose top bit is clear
FromBytes4(bytes) ==
    bytes[1] + 256 * bytes[2] + 65536 * bytes[3] + 16777216 * bytes[4]

\* what toBuffer leaves in the buffer for field f of value n: an integer,
\* and for a position the exponent of the float32 as well
Written(f, n) ==
    IF IsTime(f) THEN [int |-> FromBytes4(Bytes4(n)), exp |-> 0]
    ELSE IF f.name = "handbrake"
    THEN [int |-> ToUint(8, IF n # 0 THEN 1 ELSE 0), exp |-> 0]
    ELSE IF f.name = "handBrake" THEN [int |-> ToInt(8, n), exp |-> 0]
    ELSE IF IsPosition(f)
    THEN LET x == ToFloat32(n, ValueDen) IN [int |-> x.m, exp |-> x.exp]
    ELSE [int |-> Encode(f, n), exp |-> 0]

\* the value given to field f, as a fraction
ValueOf(f, n) ==
    IF IsTime(f) \/ IsFlag(f) THEN <<n, 1>> ELSE <<n, ValueDen>>

\* decompress with the scale left out
decompress_Unscaled(q, sn, sd) == <<q, 1>>

\* FixedVector3.decompress, decompressRotation, decompressSpeed: q / scale
decompress(q, sn, sd) == <<q * sd, sn>>

\* the value fromBuffer gives field f from what toBuffer left, as a
\* fraction (not reduced)
ReadValue(f, e, exp) ==
    IF IsTime(f) THEN <<FromBytes4(Bytes4(e)), 1>>
    ELSE IF f.name = "handbrake" THEN <<IF ToUint(8, e) # 0 THEN 1 ELSE 0, 1>>
    ELSE IF f.name = "handBrake" THEN <<ToUint(8, e), 1>>
    ELSE IF IsPosition(f) THEN <<e, 2 ^ exp>>
    ELSE decompress(Read(f, e), f.sn, f.sd)

\* what toBuffer leaves in the buffer for field f of a decoded frame,
\* whose value is out and, for a fixed-point field, was read as q
Rewritten(f, q, out) ==
    IF IsTime(f) \/ IsFlag(f) THEN Written(f, out[1])
    ELSE IF IsPosition(f)
    THEN LET x == ToFloat32(out[1], out[2]) IN [int |-> x.m, exp |-> x.exp]
    ELSE [int |-> Reencode(f, q), exp |-> 0]

\* getByteSize() / totalSize of a recording of count frames
getByteSize(layout, count) ==
    IF layout = FRAME_SIZE_CR THEN HEADER_SIZE_CR + count * FRAME_SIZE_CR
    ELSE count * FRAME_SIZE

\* where toBuffer puts frame index (from 0) of the recording
FrameOffset(layout, index) ==
    IF layout = FRAME_SIZE_CR THEN HEADER_SIZE_CR + index * FRAME_SIZE_CR
    ELSE index * FRAME_SIZE

\* CarRecording.fromBuffer on a buffer of byteLength bytes that toBuffer
\* wrote; the header of the 48-byte layout holds totalSize - headerSize
Recording_fromBuffer(layout, byteLength) ==
    IF layout = FRAME_SIZE_CR
    THEN fromBuffer_cr(byteLength, byteLength - HEADER_SIZE_CR)
    ELSE fromBuffer(byteLength)

\* the index fromBuffer gives the frame it reads at offset
DecodedIndex(layout, offset) ==
    IF layout = FRAME_SIZE_CR THEN (offset - HEADER_SIZE_CR) \div FRAME_SIZE_CR
    ELSE offset \div FRAME_SIZE

\* a recording of count frames whose frame index holds value n in field f
CodecOf(f, n, count, index) ==
    [field |-> f, value |-> n, encoded |-> 0, written |-> FALSE,
     decoded |-> 0, read |-> FALSE, reencoded |-> 0, rewritten |-> FALSE,
     exp |-> 0, out |-> Zero, count |-> count, index |-> index,
     byteLength |-> 0, offset |-> 0, frames |-> 0, at |-> 0]

CodecNew(f, n) == CodecOf(f, n, 1, 0)

\* toBuffer() of the recording and of its frames
Frame_toBuffer ==
    LET b == Written(codec.field, codec.value) IN
    /\ ~codec.written
    /\ codec' = [codec EXCEPT
                   !.encoded = b.int,
                   !.exp = b.exp,
                   !.byteLength = getByteSize(codec.field.layout, codec.count),
                   !.offset = FrameOffset(codec.field.layout, codec.index),
                   !.written = TRUE]
    /\ last' = [op |-> "toBuffer", who |-> 0, ret |-> "ArrayBuffer",
                aux |-> b.int]

\* fromBuffer() on the buffer toBuffer returned
Frame_fromBuffer ==
    LET r == Recording_fromBuffer(codec.field.layout, codec.byteLength)
        q == IF codec.field \in Fields THEN Read(codec.field, codec.encoded)
             ELSE codec.encoded
    IN
    /\ codec.written /\ ~codec.read
    /\ codec' = [codec EXCEPT
                   !.decoded = q,
                   !.out = ReadValue(codec.field, codec.encoded, codec.exp),
                   !.frames = r.frames,
                   !.at = DecodedIndex(codec.field.layout, codec.offset),
                   !.read = TRUE]
    /\ last' = [op |-> "fromBuffer", who |-> 0, ret |-> r.ret, aux |-> q]

\* toBuffer() of the recording fromBuffer returned
Decoded_toBuffer ==
    LET b == Rewritten(codec.field, codec.decoded, codec.out) IN
    /\ codec.read /\ ~codec.rewritten
    /\ codec' = [codec EXCEPT !.reencoded = b.int, !.rewritten = TRUE]
    /\ last' = [op |-> "toBuffer", who |-> 1, ret |-> "ArrayBuffer",
                aux |-> b.int]

CodecIdle == codec = CodecNew(NoField, 0)

---------------------------------------------------------------------------
(* getInterpolationFrames as a function of the recording and the time      *)

MaxStamp == 5              \* largest timestamp of a frame, in ms
MaxFrames == 5             \* longest recording queried

\* the recording with the given timestamps: frame i has position i - 1
FramesAt(stamps) ==
    [i \in 1..Len(stamps) |->
        Frame(stamps[i], i - 1, 2 * i + 1, i % 2 = 0)]

\* every recording of up to MaxFrames frames in non-decreasing time order
SortedRecordings ==
    {FramesAt(st) : st \in
        {q \in UNION {[1..n -> 0..MaxStamp] : n \in 0..MaxFrames} :
            \A i \in 1..(Len(q) - 1) : q[i] <= q[i + 1]}}

\* query times, in tenths of a millisecond
QueryTimes == (0 - Tenths)..((MaxStamp + 1) * Tenths)

NoResult == [found |-> FALSE, prev |-> 0, next |-> 0, factor |-> Zero]

\* index of a frame no search has returned yet
NotAsked == 0 - 2

BracketNew(time) ==
    [time |-> time, asked |-> FALSE, result |-> NoResult, position |-> Zero,
     nearest |-> NotAsked]

\* the loop of getFrameAtTime over frame indices from 0; closest is the
\* index of the closest frame seen so far and minDiff its distance
RECURSIVE NearestScan(_, _, _, _, _)
NearestScan(time, left, right, closest, minDiff) ==
    IF left > right
    THEN closest
    ELSE LET mid == (left + right) \div 2
             frameTime == recording[mid + 1].time * Tenths
             diff == Abs(frameTime - time)
             closer == diff < minDiff
             c == IF closer THEN mid ELSE closest
             m == IF closer THEN diff ELSE minDiff
         IN IF frameTime < time
            THEN NearestScan(time, mid + 1, right, c, m)
            ELSE IF frameTime > time
            THEN NearestScan(time, left, mid - 1, c, m)
            ELSE mid

\* getFrameAtTime(time), time in tenths of a millisecond: the index from 0
\* of the frame returned, UNDEFINED for an empty recording
getFrameAtTime(time) ==
    IF Len(recording) = 0
    THEN UNDEFINED
    ELSE NearestScan(time, 0, Len(recording) - 1, 0,
                     Abs(recording[1].time * Tenths - time))

\* recording.getFrameAtTime(time)
Recording_getFrameAtTime ==
    LET r == getFrameAtTime(bq.time) IN
    /\ bq.nearest = NotAsked
    /\ bq' = [bq EXCEPT !.nearest = r]
    /\ last' = [op |-> "getFrameAtTime", who |-> 0,
                ret |-> IF r = UNDEFINED THEN "undefined" ELSE "frame",
                aux |-> r]
    /\ UNCHANGED recording

\* recording.getInterpolationFrames(time), and the position the viewer
\* interpolates from what it returns
Recording_getInterpolationFrames ==
    LET r == getInterpolationFrames(bq.time) IN
    /\ ~bq.asked
    /\ bq' = [bq EXCEPT
                !.asked = TRUE,
                !.result = r,
                !.position =
                    IF r.found
                    THEN interpolatedPosition(recording[r.prev],
                                              recording[r.next], r.factor)
                    ELSE Zero]
    /\ last' = [op |-> "getInterpolationFrames", who |-> 0,
                ret |-> IF r.found THEN "tuple" ELSE "undefined",
                aux |-> r.prev - 1]
    /\ UNCHANGED recording

BracketIdle == bq = BracketNew(0)

FlagsIdle == flagsFound = <<FALSE, TRUE>>

RestIdle ==
    RecorderIdle /\ CodecIdle /\ FileIdle /\ BracketIdle /\ FlagsIdle

---------------------------------------------------------------------------
(* Specifications *)

NoCall == [op |-> "none", who |-> 0, ret |-> "void", aux |-> -1]

InitSlots ==
    /\ heap = HeapInit
    /\ SlotsInit
    /\ NVehInit
    /\ RegistryIdle
    /\ PlayIdle
    /\ RestIdle
    /\ last = NoCall

NextSlots ==
    \/ /\ \E w \in Viewers, v \in NVehicles, o \in StartOptions,
            ok \in BOOLEAN : NativeViewer_startPlayback(w, v, o[1], o[2], ok)
       /\ UNCHANGED <<regVars, playVars, restVars>>
    \/ /\ \E w \in Viewers : NativeViewer_stopPlayback(w)
       /\ UNCHANGED <<regVars, playVars, restVars>>
    \/ /\ \E w \in Viewers : NativeViewer_pause(w)
       /\ UNCHANGED <<regVars, playVars, restVars>>
    \/ /\ \E w \in Viewers : NativeViewer_resume(w)
       /\ UNCHANGED <<regVars, playVars, restVars>>
    \/ /\ \E w \in Viewers, sp \in Speeds : NativeViewer_setPlaybackSpeed(w, sp)
       /\ UNCHANGED <<regVars, playVars, restVars>>
    \/ /\ NativeViewer_stopAllPlaybacks
       /\ UNCHANGED <<regVars, playVars, restVars>>
    \/ /\ \E s \in Slots : Host_StopPlaybackRecordedCar(s)
       /\ UNCHANGED <<regVars, playVars, restVars>>

SpecSlots == InitSlots /\ [][NextSlots]_vars

InitRegistry ==
    /\ heap = HeapInit
    /\ SlotsIdle
    /\ NVehIdle
    /\ RegistryInit
    /\ PlayIdle
    /\ RestIdle
    /\ last = NoCall

NextRegistry ==
    \/ /\ \E j \in Injectors, arg \in ArgFileNumbers \cup {UNDEFINED},
            ok \in BOOLEAN : Injector_injectIntoGame(j, arg, ok)
       /\ UNCHANGED <<slotVars, playVars, restVars>>
    \/ /\ \E j \in Injectors : Injector_removeFromGame(j)
       /\ UNCHANGED <<slotVars, playVars, restVars>>
    \/ /\ \E n \in ArgFileNumbers \cup initialFileNumber..(FileNumberLimit - 1) :
            Host_AddRef(n)
       /\ UNCHANGED <<slotVars, playVars, restVars>>
    \/ /\ \E i \in Entries : Host_StopPlayback(i)
       /\ UNCHANGED <<slotVars, playVars, restVars>>
    \/ /\ \E n \in ArgFileNumbers \cup initialFileNumber..(FileNumberLimit - 1) :
            Host_RemoveCarRecording(n)
       /\ UNCHANGED <<slotVars, playVars, restVars>>

SpecRegistry == InitRegistry /\ [][NextRegistry]_vars

InitInject ==
    /\ heap = HeapInit
    /\ SlotsIdle
    /\ NVehIdle
    /\ RegistryFound
    /\ PlayIdle
    /\ RestIdle
    /\ last = NoCall

\* one injector is followed; what other injectors and the game have put
\* into the registry is part of the registry found
NextInject ==
    \/ /\ \E j \in {Min(Injectors)}, arg \in ArgFileNumbers \cup {UNDEFINED},
            ok \in BOOLEAN : Injector_injectIntoGame(j, arg, ok)
       /\ UNCHANGED <<slotVars, playVars, restVars>>
    \/ /\ \E j \in {Min(Injectors)} : Injector_removeFromGame(j)
       /\ UNCHANGED <<slotVars, playVars, restVars>>

SpecInject == InitInject /\ [][NextInject]_vars

\* the playback menu: every recording played is loaded into a new
\* injector and injected, the game plays it and releases it
InitMenu ==
    /\ heap = HeapInit
    /\ SlotsIdle
    /\ NVehIdle
    /\ RegistryInit
    /\ PlayIdle
    /\ RestIdle
    /\ last = NoCall

NextMenu ==
    \/ /\ \E j \in {Min(Injectors)} : Menu_loadRecording(j)
       /\ UNCHANGED <<slotVars, playVars, restVars>>
    \/ /\ \E j \in {Min(Injectors)}, ok \in BOOLEAN :
            Injector_injectIntoGame(j, UNDEFINED, ok)
       /\ UNCHANGED <<slotVars, playVars, restVars>>
    \/ /\ \E j \in {Min(Injectors)} : Injector_removeFromGame(j)
       /\ UNCHANGED <<slotVars, playVars, restVars>>
    \/ /\ \E n \in IdRange : Host_AddRef(n)
       /\ UNCHANGED <<slotVars, playVars, restVars>>
    \/ /\ \E i \in Entries : Host_StopPlayback(i)
       /\ UNCHANGED <<slotVars, playVars, restVars>>
    \/ /\ \E n \in IdRange : Host_RemoveCarRecording(n)
       /\ UNCHANGED <<slotVars, playVars, restVars>>

SpecMenu == InitMenu /\ [][NextMenu]_vars

\* the same injector, met by a registry that also holds files of the game
\* numbered above the reserved range
InitInjectHost ==
    /\ heap = HeapInit
    /\ SlotsIdle
    /\ NVehIdle
    /\ RegistryFoundIn(PathInits \cup HostPathInits)
    /\ PlayIdle
    /\ RestIdle
    /\ last = NoCall

NextInjectHost ==
    \/ /\ \E j \in {Min(Injectors)}, arg \in ArgFileNumbers \cup {UNDEFINED},
            ok \in BOOLEAN : Injector_injectIntoGame(j, arg, ok)
       /\ UNCHANGED <<slotVars, playVars, restVars>>
    \/ /\ \E j \in {Min(Injectors)} : Injector_removeFromGame(j)
       /\ UNCHANGED <<slotVars, playVars, restVars>>

SpecInjectHost == InitInjectHost /\ [][NextInjectHost]_vars

InitPlayer ==
    /\ heap = HeapInit
    /\ SlotsIdle
    /\ NVehIdle
    /\ RegistryIdle
    /\ recording \in Recordings
    /\ CarInit
    /\ player = PlayerNew
    /\ hist = HNew
    /\ fviewer = FViewerNew(FALSE)
    /\ now = 0
    /\ fh = FHNew
    /\ RestIdle
    /\ last = NoCall

NextPlayer ==
    \/ /\ \E lp \in BOOLEAN : Player_startPlayback(lp)
       /\ UNCHANGED <<heap, slotVars, regVars, restVars>>
    \/ /\ Player_stopPlayback
       /\ UNCHANGED <<heap, slotVars, regVars, restVars>>
    \/ /\ Player_pause
       /\ UNCHANGED <<heap, slotVars, regVars, restVars>>
    \/ /\ Player_resume
       /\ UNCHANGED <<heap, slotVars, regVars, restVars>>
    \/ /\ \E sp \in SpeedArgs : Player_setPlaybackSpeed(sp)
       /\ UNCHANGED <<heap, slotVars, regVars, restVars>>
    \/ /\ \E t \in SeekArgs : Player_seekTo(t)
       /\ UNCHANGED <<heap, slotVars, regVars, restVars>>
    \/ /\ \E dt \in DeltaTimes : Player_update(dt)
       /\ UNCHANGED <<heap, slotVars, regVars, restVars>>
    \/ /\ \E how \in {"dead", "gone"} : Car_Destroyed(how)
       /\ UNCHANGED <<heap, slotVars, regVars, restVars>>

SpecPlayer == InitPlayer /\ [][NextPlayer]_vars

\* arguments of setPlaybackSpeed below and above the clamp, in tenths
OuterSpeedArgs == {0, 200}

\* the per-frame call of update in the script's main loop
PlaybackTick ==
    /\ \E dt \in DeltaTimes : Player_update(dt)
    /\ UNCHANGED <<heap, slotVars, regVars, restVars>>

\* a playback that is started when none is running and is left to update,
\* with pauses, speed changes and the loss of the vehicle
NextPlayback ==
    \/ /\ ~player.isPlaying
       /\ \E lp \in BOOLEAN : Player_startPlayback(lp)
       /\ UNCHANGED <<heap, slotVars, regVars, restVars>>
    \/ /\ Player_stopPlayback
       /\ UNCHANGED <<heap, slotVars, regVars, restVars>>
    \/ /\ Player_pause
       /\ UNCHANGED <<heap, slotVars, regVars, restVars>>
    \/ /\ Player_resume
       /\ UNCHANGED <<heap, slotVars, regVars, restVars>>
    \/ /\ \E sp \in OuterSpeedArgs : Player_setPlaybackSpeed(sp)
       /\ UNCHANGED <<heap, slotVars, regVars, restVars>>
    \/ PlaybackTick
    \/ /\ \E how \in {"dead", "gone"} : Car_Destroyed(how)
       /\ UNCHANGED <<heap, slotVars, regVars, restVars>>

\* a recording of one frame or a recording of several, and a vehicle with
\* the flags the game gives it
InitPlayback ==
    /\ heap = HeapInit
    /\ SlotsIdle
    /\ NVehIdle
    /\ RegistryIdle
    /\ recording \in {RecOne, RecA}
    /\ CarIdle
    /\ player = PlayerNew
    /\ hist = HNew
    /\ fviewer = FViewerNew(FALSE)
    /\ now = 0
    /\ fh = FHNew
    /\ RestIdle
    /\ last = NoCall

\* the main loop calls update once per frame for as long as the script runs
SpecPlayback ==
    InitPlayback /\ [][NextPlayback]_vars /\ WF_vars(PlaybackTick)

\* startPlayback on a stopped player, with the collision flags it finds on
\* the vehicle noted when a playback is started
Noted_startPlayback(looped) ==
    /\ ~player.isPlaying
    /\ Player_startPlayback(looped)
    /\ flagsFound' = IF getFrameCount = 0 THEN flagsFound
                     ELSE <<car.disableCollisionForce, car.collidable>>
    /\ UNCHANGED <<heap, slotVars, regVars, recVars, codec, file, bq>>

\* playbacks on a vehicle whose collision flags are on or off beforehand
NextFlags ==
    \/ \E lp \in BOOLEAN : Noted_startPlayback(lp)
    \/ /\ Player_stopPlayback
       /\ UNCHANGED <<heap, slotVars, regVars, restVars>>
    \/ /\ Player_pause
       /\ UNCHANGED <<heap, slotVars, regVars, restVars>>
    \/ /\ Player_resume
       /\ UNCHANGED <<heap, slotVars, regVars, restVars>>
    \/ /\ \E dt \in DeltaTimes : Player_update(dt)
       /\ UNCHANGED <<heap, slotVars, regVars, restVars>>
    \/ /\ \E how \in {"dead", "gone"} : Car_Destroyed(how)
       /\ UNCHANGED <<heap, slotVars, regVars, restVars>>

SpecFlags == InitPlayer /\ [][NextFlags]_vars

InitFrame ==
    /\ heap = HeapInit
    /\ SlotsIdle
    /\ NVehIdle
    /\ RegistryIdle
    /\ recording \in Recordings
    /\ CarIdle
    /\ player = PlayerNew
    /\ hist = HNew
    /\ \E loop \in BOOLEAN : fviewer = FViewerNew(loop)
    /\ now = 0
    /\ fh = FHNew
    /\ RestIdle
    /\ last = NoCall

NextFrame ==
    \/ /\ Frame_start
       /\ UNCHANGED <<heap, slotVars, regVars, restVars>>
    \/ /\ Frame_stop
       /\ UNCHANGED <<heap, slotVars, regVars, restVars>>
    \/ /\ Frame_pause
       /\ UNCHANGED <<heap, slotVars, regVars, restVars>>
    \/ /\ Frame_resume
       /\ UNCHANGED <<heap, slotVars, regVars, restVars>>
    \/ /\ \E i \in (0 - 1)..3 : Frame_seekToFrame(i)
       /\ UNCHANGED <<heap, slotVars, regVars, restVars>>
    \/ /\ Frame_update
       /\ UNCHANGED <<heap, slotVars, regVars, restVars>>
    \/ /\ Tick
       /\ UNCHANGED <<heap, slotVars, regVars, restVars>>

SpecFrame == InitFrame /\ [][NextFrame]_vars

InitRecorder ==
    /\ heap = HeapInit
    /\ SlotsIdle
    /\ NVehIdle
    /\ RegistryIdle
    /\ PlayIdle
    /\ timer \in {0, KEY_RELEASE_THRESHOLD}
    /\ recorder = RecorderNew
    /\ \E mf \in 0..MaxMaxFrames : mrecorder = MRecorderNew(mf)
    /\ CodecIdle
    /\ FileIdle
    /\ BracketIdle
    /\ FlagsIdle
    /\ last = NoCall

NextRecorder ==
    \/ /\ \E inCar \in BOOLEAN, keys \in BOOLEAN :
            \E so \in IF ToggleDue(inCar, keys) /\ ~recorder.isRecording
                       THEN StartOutcomes ELSE {<<<<FALSE, 0>>, FALSE>>},
               sm \in IF SampleDue(inCar, keys) THEN SampleOutcomes
                      ELSE {<<FALSE, 0>>} :
               Recorder_update(inCar, keys, so[1][1], so[1][2], so[2],
                               sm[1], sm[2], TRUE)
       /\ UNCHANGED <<flagsFound, heap, slotVars, regVars, playVars, codec,
                      file, bq>>
    \/ /\ MRecorder_start
       /\ UNCHANGED <<flagsFound, heap, slotVars, regVars, playVars, codec,
                      file, bq>>
    \/ /\ MRecorder_stop
       /\ UNCHANGED <<flagsFound, heap, slotVars, regVars, playVars, codec,
                      file, bq>>
    \/ /\ MRecorder_update
       /\ UNCHANGED <<flagsFound, heap, slotVars, regVars, playVars, codec,
                      file, bq>>
    \/ /\ \E d \in 1..MaxTimerStep : GameTimer_Advance(d)
       /\ UNCHANGED <<flagsFound, heap, slotVars, regVars, playVars, codec,
                      file, bq>>

SpecRecorder == InitRecorder /\ [][NextRecorder]_vars

\* the file recorder alone, with writes to the file that can fail
InitRecorderFile ==
    /\ heap = HeapInit
    /\ SlotsIdle
    /\ NVehIdle
    /\ RegistryIdle
    /\ PlayIdle
    /\ timer \in {0, KEY_RELEASE_THRESHOLD}
    /\ recorder = RecorderNew
    /\ mrecorder = MRecorderNew(0)
    /\ CodecIdle
    /\ FileIdle
    /\ BracketIdle
    /\ FlagsIdle
    /\ last = NoCall

NextRecorderFile ==
    \/ /\ \E inCar \in BOOLEAN, keys \in BOOLEAN :
            \E so \in IF ToggleDue(inCar, keys) /\ ~recorder.isRecording
                       THEN StartOutcomes ELSE {<<<<FALSE, 0>>, FALSE>>},
               sm \in IF SampleDue(inCar, keys) THEN FileSampleOutcomes
                      ELSE {<<<<FALSE, 0>>, TRUE>>} :
               Recorder_update(inCar, keys, so[1][1], so[1][2], so[2],
                               sm[1][1], sm[1][2], sm[2])
       /\ UNCHANGED <<flagsFound, heap, slotVars, regVars, playVars, codec,
                      file, bq>>
    \/ /\ \E d \in 1..MaxTimerStep : GameTimer_Advance(d)
       /\ UNCHANGED <<flagsFound, heap, slotVars, regVars, playVars, codec,
                      file, bq>>

SpecRecorderFile == InitRecorderFile /\ [][NextRecorderFile]_vars

InitCodec ==
    /\ heap = HeapInit
    /\ SlotsIdle
    /\ NVehIdle
    /\ RegistryIdle
    /\ PlayIdle
    /\ RecorderIdle
    /\ \E f \in Fields \cup ExactFields :
         \E n \in FieldValues(f), count \in 1..MaxCount,
            index \in 0..(MaxCount - 1) :
              /\ index < count
              /\ codec = CodecOf(f, n, count, index)
    /\ FileIdle
    /\ BracketIdle
    /\ FlagsIdle
    /\ last = NoCall

NextCodec ==
    \/ /\ Frame_toBuffer
       /\ UNCHANGED <<flagsFound, heap, slotVars, regVars, playVars,
                      recVars, file, bq>>
    \/ /\ Frame_fromBuffer
       /\ UNCHANGED <<flagsFound, heap, slotVars, regVars, playVars,
                      recVars, file, bq>>
    \/ /\ Decoded_toBuffer
       /\ UNCHANGED <<flagsFound, heap, slotVars, regVars, playVars,
                      recVars, file, bq>>

SpecCodec == InitCodec /\ [][NextCodec]_vars

InitLoad ==
    /\ heap = HeapInit
    /\ SlotsIdle
    /\ NVehIdle
    /\ RegistryIdle
    /\ PlayIdle
    /\ RecorderIdle
    /\ CodecIdle
    /\ file \in Files
    /\ BracketIdle
    /\ FlagsIdle
    /\ last = NoCall

NextLoad ==
    \/ /\ Decode_fromBuffer
       /\ UNCHANGED <<flagsFound, slotVars, regVars, playVars, recVars,
                      codec, bq>>
    \/ /\ Decode_fromBuffer_cr
       /\ UNCHANGED <<flagsFound, slotVars, regVars, playVars, recVars,
                      codec, bq>>
    \/ /\ \E ok \in BOOLEAN : Injector_loadFromFile(ok)
       /\ UNCHANGED <<flagsFound, slotVars, regVars, playVars, recVars,
                      codec, bq>>
    \/ /\ \E ok \in BOOLEAN : NativeViewer_loadFromFile(ok)
       /\ UNCHANGED <<flagsFound, slotVars, regVars, playVars, recVars,
                      codec, bq>>

SpecLoad == InitLoad /\ [][NextLoad]_vars

InitBracket ==
    /\ heap = HeapInit
    /\ SlotsIdle
    /\ NVehIdle
    /\ RegistryIdle
    /\ recording \in SortedRecordings
    /\ CarIdle
    /\ player = PlayerNew
    /\ hist = HNew
    /\ fviewer = FViewerNew(FALSE)
    /\ now = 0
    /\ fh = FHNew
    /\ RecorderIdle
    /\ CodecIdle
    /\ FileIdle
    /\ \E t \in QueryTimes : bq = BracketNew(t)
    /\ FlagsIdle
    /\ last = NoCall

NextBracket ==
    \/ /\ Recording_getInterpolationFrames
       /\ UNCHANGED <<flagsFound, heap, slotVars, regVars, car, player, hist, fviewer,
                      now, fh, recVars, codec, file>>
    \/ /\ Recording_getFrameAtTime
       /\ UNCHANGED <<flagsFound, heap, slotVars, regVars, car, player, hist, fviewer,
                      now, fh, recVars, codec, file>>

SpecBracket == InitBracket /\ [][NextBracket]_vars

Spec == SpecSlots

---------------------------------------------------------------------------
(* Properties of the native viewer and the playback-slot table            *)

\* viewer w came out of a successful startPlayback and has not stopped
Started(w) ==
    viewers[w].playbackSlot # -1 /\ viewers[w].allocatedMemory \in Addrs

\* C1: viewers that started a playback and have not stopped hold pairwise
\* distinct slots (a slot is held by at most one viewer at a time), and a
\* startPlayback that found every slot held returned false.
C1_SlotsExclusive ==
    /\ \A w1 \in Viewers, w2 \in Viewers :
          (w1 # w2 /\ Started(w1) /\ Started(w2))
              => viewers[w1].playbackSlot # viewers[w2].playbackSlot
    /\ Cardinality({w \in Viewers : Started(w)}) <= TOTAL_VEHICLE_RECORDS

\* C3: every buffer whose pointer was stored in a host-owned table came
\* from CMemoryMgr::Malloc and was never released through another
\* allocator than CMemoryMgr::Free.
C3_HostTablesHoldHostBuffers ==
    \A a \in Addrs :
        heap[a].tabled => (heap[a].alloc = "host" /\ ~heap[a].mismatch)

\* C6: when stopPlayback has returned, the viewer owns no slot and every
\* buffer it allocated in an earlier startPlayback has been freed.
C6_StopReleasesEverything ==
    last.op = "stopPlayback" =>
        /\ viewers[last.who].playbackSlot = -1
        /\ \A a \in Addrs :
              (heap[a].alloc # "none" /\ heap[a].owner = last.who)
                  => heap[a].frees >= 1

\* The native viewer does what C11 describes: pause and resume write the
\* paused flag of the viewer's slot and nothing else.
Native_PauseKeepsSlot ==
    [][last'.op \in {"pause", "resume"}
          => (/\ viewers' = viewers /\ heap' = heap /\ nveh' = nveh
              /\ \A i \in Slots :
                    [slots'[i] EXCEPT !.paused = 0]
                        = [slots[i] EXCEPT !.paused = 0]
              /\ \A i \in Slots :
                    i # viewers[last'.who].playbackSlot
                        => slots'[i] = slots[i])]_vars

---------------------------------------------------------------------------
(* Properties of the injector and the StreamingArray registry             *)

Injected(j) == injectors[j].injectedFileNumber # NULL

\* every entry of the registry holds the data of a loaded recording
RegistryFull == \A i \in Entries : registry[i].data # 0

\* C2: as long as nothing has been removed or released, two injectors that
\* have injected their recordings occupy different registry entries.
C2_DistinctEntries ==
    ~regRemovals =>
        \A j1 \in Injectors, j2 \in Injectors :
            (j1 # j2 /\ Injected(j1) /\ Injected(j2))
                => injectors[j1].streamingArrayIndex
                     # injectors[j2].streamingArrayIndex

\* C4: under every interleaving of injectIntoGame, the host's AddRef /
\* RemoveRef / RemoveCarRecording and removeFromGame, a buffer is freed at
\* most once, and removeFromGame never frees it while the host's
\* reference count of its entry is above zero.
C4_FreedOnceNeverWhileReferenced ==
    \A a \in Addrs : heap[a].frees <= 1 /\ ~heap[a].hot

\* C5: the entry removeFromGame released is free again, an injectIntoGame
\* that directly follows the injector's own removeFromGame does not fail
\* for want of an entry, and an injectIntoGame by an injector that is not
\* injected throws NoFreeRegistryEntry when every entry holds a live
\* recording.
C5_ReleaseAndExhaustion ==
    [][/\ (last'.op = "removeFromGame" /\ last'.ret = "removed")
            => (registry'[last'.aux].number = 0
                /\ registry'[last'.aux].data = 0)
       /\ (/\ last.op = "removeFromGame" /\ last.ret = "removed"
           /\ last'.op = "injectIntoGame" /\ last'.who = last.who)
            => last'.ret # "NoFreeRegistryEntry"
       /\ (/\ RegistryFull
           /\ last'.op = "injectIntoGame"
           /\ ~Injected(last'.who))
            => last'.ret = "NoFreeRegistryEntry"]_vars

---------------------------------------------------------------------------
(* Properties of the delta-time CarRecordingViewer                         *)

\* C7: after every update made while the vehicle is no longer valid, the
\* player is stopped and holds neither the vehicle nor the driver, whether
\* it was playing or paused when update was called.
C7_InvalidVehicleStopsPlayback ==
    (last.op = "update" /\ IsDead) =>
        /\ ~player.isPlaying
        /\ player.playbackVehicle = NULL
        /\ player.driver = NULL

\* C10: an update made while the player is paused has written the vehicle,
\* and the velocity it left there is zero.
C10_PausedUpdateFreezes ==
    (last.op = "update" /\ player.isPlaying /\ player.isPaused) =>
        (last.aux = 1 /\ car.applied.vel = Zero)

\* a looped playback that has seen nothing but update and setPlaybackSpeed
\* calls since it started, on a vehicle that stayed valid, and whose
\* deltaTime x speed values sum to twice the duration
TwoLapsPlayed ==
    /\ player.looped
    /\ hist.clean
    /\ hist.elapsed = 2 * getDuration * Tenths

\* what update applies at clock 0: frame 0, but the last frame when the
\* first timestamp lies after 0 (no bracket holds 0, so
\* getInterpolationFrames answers with its beyond-the-end case)
StateAtClockZero ==
    IF Len(recording) >= 2 /\ recording[1].time > 0
    THEN FrameState(recording[Len(recording)])
    ELSE FrameState(recording[1])

C11_PauseFreezesClock ==
    [][/\ last'.op = "pause"
            => (/\ player' = [player EXCEPT
                                !.isPaused = @ \/ player.isPlaying]
                /\ car' = car /\ recording' = recording)
       /\ (player.isPaused /\ last'.op = "update")
            => (player' = player /\ car' = car /\ recording' = recording)
       /\ last'.op = "resume"
            => (/\ player' = [player EXCEPT !.isPaused = FALSE]
                /\ car' = car /\ recording' = recording)]_vars

\* an update was made on a paused playback whose clock had advanced
C11_PausedUpdateSeen ==
    /\ last.op = "update"
    /\ player.isPlaying /\ player.isPaused
    /\ player.currentTime > 0

---------------------------------------------------------------------------
(* Properties of the wall-clock CarRecordingViewer                         *)

\* the playback clock of the wall-clock viewer
FrameClock ==
    IF fviewer.isPaused THEN fviewer.pauseTime - fviewer.startTime
    ELSE now - fviewer.startTime

\* the index of the latest frame whose timestamp is <= time
LatestFrameAt(time) ==
    CHOOSE i \in 0..(getFrameCount - 1) :
        /\ recording[i + 1].time <= time
        /\ \A j \in 0..(getFrameCount - 1) :
              recording[j + 1].time <= time => j <= i

\* C12: after a seek to a valid frame of an active playback the clock is
\* that frame's timestamp plus the playing time since the seek, and an
\* update of the playing viewer, while that clock is within the recording,
\* returns a frame with the timestamp of the latest frame at that clock.
C12_SeekSetsClock ==
    [][/\ (fviewer'.isPlaying /\ fh'.seekClock >= 0)
            => FrameClock' = fh'.seekClock
       /\ (/\ now' = now /\ last'.op = "update"
           /\ fviewer.isPlaying /\ ~fviewer.isPaused
           /\ fh.seekClock >= 0 /\ fh.seekClock <= getDuration)
            => (/\ last'.aux >= 0 /\ last'.aux < getFrameCount
                /\ recording[last'.aux + 1].time
                     = recording[LatestFrameAt(fh.seekClock) + 1].time)]_vars

\* The wall-clock viewer does what C11 describes: pause, resume, the
\* passing of time and update on a paused playback leave the clock, the
\* loop flag and the frame index as they are.
WallClock_PauseFreezesClock ==
    [][(/\ fviewer.isPlaying
        /\ \/ (now' = now /\ last'.op \in {"pause", "resume"})
           \/ (fviewer.isPaused /\ (last'.op = "update" \/ now' # now)))
          => (/\ FrameClock' = FrameClock
              /\ fviewer'.loop = fviewer.loop
              /\ fviewer'.isPlaying
              /\ fviewer'.currentFrameIndex = fviewer.currentFrameIndex
              /\ recording' = recording)]_vars

\* C8: the update that finds a non-looped playback at its end stops the
\* viewer and returns the ended sentinel, and an update after an
\* externally requested stop returns something else.
C8_EndedDistinctFromStopped ==
    /\ (last.op = "update" /\ fh.how = "ended")
         => (~fviewer.isPlaying /\ last.aux = EndedSentinel)
    /\ (last.op = "update" /\ fh.how = "stopped")
         => last.aux # EndedSentinel

\* The wall-clock viewer does what C10 describes: a paused update writes
\* the frame at currentFrameIndex with both velocities zero.
WallClock_PausedUpdateFreezes ==
    (/\ last.op = "update" /\ fviewer.isPlaying /\ fviewer.isPaused
     /\ fviewer.currentFrameIndex < getFrameCount)
        => car.applied =
             applyFrameStatic(recording[fviewer.currentFrameIndex + 1])

---------------------------------------------------------------------------
(* Properties of the recorders                                             *)

\* timestamps in non-decreasing order
Sorted(frames) ==
    \A i \in 1..(Len(frames) - 1) : frames[i] <= frames[i + 1]

\* C13: at every reachable state of a recorder driven against a
\* non-decreasing game timer, the frames of its recording are in
\* non-decreasing timestamp order.
C13_FramesInTimeOrder ==
    /\ Sorted(recorder.frames)
    /\ Sorted(mrecorder.frames)

\* both recorders hold two frames or more with advancing timestamps, the
\* memory recorder in a recording started after its first
C13_TwoFramesRecorded ==
    /\ Len(recorder.frames) >= 2
    /\ recorder.frames[2] > recorder.frames[1]
    /\ Len(mrecorder.frames) >= 2
    /\ mrecorder.frames[2] > mrecorder.frames[1]
    /\ mrecorder.startTime > 0

\* C14: the first frame of every recording has timestamp 0.
C14_FirstFrameAtEpoch ==
    /\ Len(recorder.frames) > 0 => recorder.frames[1] = 0
    /\ Len(mrecorder.frames) > 0 => mrecorder.frames[1] = 0

\* C15: the frame count never exceeds maxFrames, and an update of a
\* recording recorder whose count has reached maxFrames returns false,
\* leaves the frames as they are and leaves the recorder recording.
C15_BufferFull ==
    [][/\ Len(mrecorder'.frames) <= mrecorder'.maxFrames
       /\ (/\ last'.who = 1 /\ last'.op = "update" /\ timer' = timer
           /\ recorder' = recorder
           /\ mrecorder.isRecording
           /\ Len(mrecorder.frames) >= mrecorder.maxFrames)
            => (/\ last'.aux = 0
                /\ mrecorder' = mrecorder)]_vars

\* an update has been refused on a full recorder that is still recording
C15_RefusedWhenFull ==
    /\ last.who = 1 /\ last.op = "update" /\ last.aux = 0
    /\ mrecorder.isRecording
    /\ mrecorder.maxFrames > 0
    /\ Len(mrecorder.frames) = mrecorder.maxFrames

---------------------------------------------------------------------------
(* Properties of the fixed-point encoding                                  *)

\* the scaled value, rounded as the field's layout rounds it
ScaledExact(f, n) ==
    IF f.round THEN RoundScaled(n, f.sn, f.sd) ELSE FloorScaled(n, f.sn, f.sd)

\* C16: the integer written for a fixed-point field is the scaled value
\* saturated to the field's range.
C16_EncodeSaturates ==
    (codec.written /\ codec.field \in Fields) =>
        codec.encoded = Clamp(FieldMin(codec.field), FieldMax(codec.field),
                              ScaledExact(codec.field, codec.value))

---------------------------------------------------------------------------
(* Properties of decoding and loading                                      *)

\* the buffer holds a whole number of frames of the layout
WholeFrames(layout) ==
    IF layout = 32 THEN file.size % FRAME_SIZE = 0
    ELSE /\ file.size >= HEADER_SIZE_CR
         /\ (file.size - HEADER_SIZE_CR) % FRAME_SIZE_CR = 0

\* C17: decoding a buffer whose length is not a whole number of frames
\* fails and returns no recording.
C17_TruncatedBufferRejected ==
    (last.op = "fromBuffer" /\ ~WholeFrames(last.who))
        => last.ret # "CarRecording"

\* The decoder of the 32-byte layout does what C17 describes, on its own
\* and inside loadFromFile.
Decode32_TruncatedBufferRejected ==
    (last.op \in {"fromBuffer", "loadFromFile"} /\ last.who # 48
     /\ file.opens /\ ~WholeFrames(32))
        => last.ret \in {"RangeError", "undefined"}

\* C18: loading a file that cannot be opened or is empty ends in an
\* explicit failure, never in a normal return.
C18_LoadFailureExplicit ==
    (last.op = "loadFromFile" /\ (~file.opens \/ file.size = 0))
        => last.ret \in {"Error", "RangeError"}

---------------------------------------------------------------------------
(* Properties of getInterpolationFrames                                    *)

\* timestamp of frame i, in the unit of the query time
StampOf(i) == recording[i].time * Tenths

\* a fraction within [0, 1]
WithinUnit(f) == 0 <= f[1] /\ f[1] <= f[2]

One == <<1, 1>>

\* the result is the last two frames with factor 1.0
LastTwoAtOne ==
    /\ bq.result.prev = Len(recording) - 1
    /\ bq.result.next = Len(recording)
    /\ bq.result.factor = One

\* C19: for a recording of two frames or more the factor is within [0,1],
\* it is 0 when the time is the returned prev frame's timestamp, 1 when it
\* is the returned next frame's timestamp (prev.t < next.t), 0 when
\* prev.t = next.t, and for a time at or beyond the last frame the result
\* is (secondToLast, last, 1.0).
C19_FactorWithinUnit ==
    (bq.asked /\ Len(recording) >= 2) =>
        LET r == bq.result IN
        /\ r.found
        /\ WithinUnit(r.factor)
        /\ (bq.time = StampOf(r.prev) /\ StampOf(r.prev) < StampOf(r.next))
              => r.factor = Zero
        /\ (bq.time = StampOf(r.next) /\ StampOf(r.prev) < StampOf(r.next))
              => r.factor = One
        /\ StampOf(r.prev) = StampOf(r.next) => r.factor = Zero
        /\ bq.time >= StampOf(Len(recording)) => LastTwoAtOne

\* C19, amended: the factor is within [0,1]; it is 0 when the time is the
\* returned prev frame's timestamp (also when next has the same timestamp),
\* 1 when it is the returned next frame's timestamp and prev.t < next.t;
\* for a time beyond the last frame the result is (secondToLast, last, 1.0)
\* whatever their timestamps, and for a time equal to the last timestamp it
\* is so when the last two timestamps differ.
C19_FactorWithinUnitAtBracket ==
    (bq.asked /\ Len(recording) >= 2) =>
        LET r == bq.result
            n == Len(recording) IN
        /\ r.found
        /\ WithinUnit(r.factor)
        /\ bq.time = StampOf(r.prev) => r.factor = Zero
        /\ (bq.time = StampOf(r.next) /\ StampOf(r.prev) < StampOf(r.next))
              => r.factor = One
        /\ bq.time > StampOf(n) => LastTwoAtOne
        /\ (bq.time = StampOf(n) /\ StampOf(n - 1) < StampOf(n))
              => LastTwoAtOne

\* a query beyond a recording whose last two frames share a timestamp has
\* returned them with factor 1.0
C19_BeyondFlatTail ==
    /\ bq.asked /\ Len(recording) = 3
    /\ StampOf(2) = StampOf(3) /\ StampOf(1) < StampOf(2)
    /\ bq.time > StampOf(3)
    /\ LastTwoAtOne

\* C20: for a time strictly between two adjacent distinct timestamps the
\* result is that pair, the factor is (t - prev.t) / (next.t - prev.t) and
\* the interpolated position is prev + (next - prev) * factor.
C20_InterpolatesBetween ==
    \A i \in 1..(Len(recording) - 1) :
        (bq.asked /\ StampOf(i) < bq.time /\ bq.time < StampOf(i + 1)) =>
            LET r == bq.result
                D == StampOf(i + 1) - StampOf(i)
            IN
            /\ r.found /\ r.prev = i /\ r.next = i + 1
            /\ r.factor[1] * D = r.factor[2] * (bq.time - StampOf(i))
            /\ bq.position[1] * D =
                 bq.position[2] *
                   (recording[i].x * D
                    + (recording[i + 1].x - recording[i].x)
                        * (bq.time - StampOf(i)))

\* frames at 0, 2 and 5 ms with positions 0, 1, 2 queried at 3 ms: the
\* pair (frame@2, frame@5), factor 1/3, position 4/3
C20_ScenarioThird ==
    /\ bq.asked
    /\ Len(recording) = 3
    /\ recording[1].time = 0 /\ recording[2].time = 2 /\ recording[3].time = 5
    /\ bq.time = 3 * Tenths
    /\ bq.result.prev = 2 /\ bq.result.next = 3
    /\ bq.result.factor = <<1, 3>>
    /\ bq.position = <<4, 3>>

---------------------------------------------------------------------------
(* Properties of the two lookups taken together                           *)

\* getFrameAtTime has been called on a recording that has frames
NearestAsked == bq.nearest # NotAsked /\ Len(recording) > 0

\* the prev index of getInterpolationFrames does not decrease with the time
Bracket_Monotone ==
    (bq.asked /\ Len(recording) >= 2) =>
        \A t2 \in QueryTimes :
            bq.time <= t2 => bq.result.prev <= getInterpolationFrames(t2).prev

\* the index of getFrameAtTime does not decrease with the time
Nearest_Monotone ==
    NearestAsked =>
        \A t2 \in QueryTimes :
            bq.time <= t2 => bq.nearest <= getFrameAtTime(t2)

\* C21: on a recording in non-decreasing time order and for two times
\* t1 <= t2, before the first frame and beyond the last included, the index
\* getFrameAtTime returns at t1 is at most the one at t2, and so is the prev
\* index getInterpolationFrames returns.
C21_MonotoneScan == Nearest_Monotone /\ Bracket_Monotone

\* distance of frame index i (from 0) to the query time
Distance(i) == Abs(StampOf(i + 1) - bq.time)

\* the frame returned is at minimal distance from the time
Nearest_MinimalDistance ==
    NearestAsked =>
        \A i \in 0..(Len(recording) - 1) :
            Distance(bq.nearest) <= Distance(i)

\* C22: on a non-empty recording in non-decreasing time order
\* getFrameAtTime returns a frame at minimal distance from the time, and of
\* the frames equally close the earliest.
C22_NearestEarliestClosest ==
    NearestAsked =>
        \A i \in 0..(Len(recording) - 1) :
            /\ Distance(bq.nearest) <= Distance(i)
            /\ Distance(bq.nearest) = Distance(i) => bq.nearest <= i

\* the same with the timestamps of the frames all different
Nearest_EarliestClosestDistinct ==
    (NearestAsked /\ \A i \in 1..(Len(recording) - 1) : StampOf(i) < StampOf(i + 1))
        => C22_NearestEarliestClosest

---------------------------------------------------------------------------
(* Properties of a frame encoded, decoded and encoded again                *)

\* C23: for every frame and both layouts, encoding the frame decoded from
\* an encoded frame gives the same bytes as the first encoding.
C23_EncodeIdempotent ==
    codec.rewritten => codec.reencoded = codec.encoded

\* the same for the fields that toBuffer rounds rather than floors
Codec_RoundedIdempotent ==
    (codec.rewritten /\ codec.field.round) => codec.reencoded = codec.encoded

\* the scaled value of the field fits the integer the layout gives it
InRange(f, n) ==
    /\ FieldMin(f) <= ScaledExact(f, n)
    /\ ScaledExact(f, n) <= FieldMax(f)

\* the same for the values that fit their field
Codec_InRangeIdempotent ==
    (codec.rewritten /\ codec.field \in Fields
       /\ InRange(codec.field, codec.value))
        => codec.reencoded = codec.encoded

\* the same for the fields stored without a scale
Codec_ExactIdempotent ==
    (codec.rewritten /\ codec.field \in ExactFields)
        => codec.reencoded = codec.encoded

\* a / b is a float32: a power of two under at most 24 significant bits
IsFloat32(a, b) ==
    LET r == Reduce(a, b) IN
    /\ 2 ^ FloorLog2(r[2]) = r[2]
    /\ Abs(r[1]) < 2 ^ SignificandBits

\* value n of field f is one the layout can hold
Representable(f, n) ==
    IF f \in Fields THEN InRange(f, n)
    ELSE IF IsTime(f) THEN n >= 0
    ELSE IF f.name = "handbrake" THEN n \in {0, 1}
    ELSE IF f.name = "handBrake" THEN n \in 0..255
    ELSE IsFloat32(n, ValueDen)

\* the fraction out is less than 1 / scale from n / ValueDen
WithinScale(out, n, sn, sd) ==
    Abs(out[1] * ValueDen - n * out[2])
        < (sd * out[2] * ValueDen + sn - 1) \div sn

\* the fraction out is the value v
SameValue(out, v) == out[1] * v[2] = v[1] * out[2]

\* C24: a frame whose fields the layout can hold, encoded and decoded, is
\* less than 1/scale from the original in each fixed-point field and equal
\* to it in the timestamp, the handbrake and the float position; a
\* recording written and read back has as many frames, in the same order.
C24_RoundTripWithinScale ==
    (codec.read /\ Representable(codec.field, codec.value)) =>
        /\ codec.field \in Fields =>
              WithinScale(codec.out, codec.value,
                          codec.field.sn, codec.field.sd)
        /\ codec.field \in ExactFields =>
              SameValue(codec.out, ValueOf(codec.field, codec.value))
        /\ codec.frames = codec.count
        /\ codec.at = codec.index

\* the second frame of a two-frame recording has come back second, with a
\* velocity that the 32-byte layout holds but does not hold exactly
C24_ApproximatedVelocity ==
    /\ codec.read
    /\ codec.field.name = "velocity"
    /\ Representable(codec.field, codec.value)
    /\ ~SameValue(codec.out, ValueOf(codec.field, codec.value))
    /\ codec.count = 2 /\ codec.index = 1
    /\ codec.frames = 2 /\ codec.at = 1

---------------------------------------------------------------------------
(* Properties of injectIntoGame on a registry found in any state          *)

\* the ids of the reserved range
\* id n is the number of an entry that holds a data pointer
BoundToLiveData(n) ==
    \E i \in Entries : registry[i].number = n /\ registry[i].data # 0

\* the ids of the range not bound to live data
UnboundIds == {n \in IdRange : ~BoundToLiveData(n)}

\* the step is injectIntoGame() without a file number by injector j, which
\* was not injected
InjectsUnnumbered(j) ==
    /\ ~Injected(j)
    /\ \E ok \in BOOLEAN : Injector_injectIntoGame(j, UNDEFINED, ok)

\* C25: injectIntoGame without a file number assigns the smallest id of
\* the range that no entry holding a data pointer has; when every id is
\* bound to live data it throws IdRangeExhausted; it never assigns an id
\* bound to live data.
C25_AssignsSmallestUnboundId ==
    [][\A j \in {last'.who} \cap Injectors :
          (last'.op = "injectIntoGame" /\ InjectsUnnumbered(j)) =>
          /\ last'.ret = "ok" =>
                /\ UnboundIds # {}
                /\ injectors'[j].injectedFileNumber = Min(UnboundIds)
          /\ UnboundIds = {} => last'.ret = "IdRangeExhausted"
          /\ injectors'[j].injectedFileNumber # NULL =>
                ~BoundToLiveData(injectors'[j].injectedFileNumber)]_vars

\* C25, amended: the same, with the exhausted range reported as
\* IdRangeExhausted when a registry entry is free and as
\* NoFreeRegistryEntry when none is, the entry being looked for first.
C25_AssignsSmallestUnboundIdInFreeEntry ==
    [][\A j \in {last'.who} \cap Injectors :
          (last'.op = "injectIntoGame" /\ InjectsUnnumbered(j)) =>
          /\ last'.ret = "ok" =>
                /\ UnboundIds # {}
                /\ injectors'[j].injectedFileNumber = Min(UnboundIds)
          /\ UnboundIds = {} =>
                last'.ret = IF findFreeStreamingSlot = -1
                            THEN "NoFreeRegistryEntry"
                            ELSE "IdRangeExhausted"
          /\ UnboundIds = {} => injectors'[j].injectedFileNumber = NULL
          /\ injectors'[j].injectedFileNumber # NULL =>
                ~BoundToLiveData(injectors'[j].injectedFileNumber)]_vars

\* an injection without a file number has been given the second id of the
\* range because the first is bound to live data
C25_SecondIdAssigned ==
    /\ last.op = "injectIntoGame" /\ last.ret = "ok"
    /\ injectors[last.who].injectedFileNumber = initialFileNumber + 1
    /\ \E i \in Entries :
          /\ i # last.aux
          /\ registry[i].number = initialFileNumber
          /\ registry[i].data # 0

\* an injection has failed with IdRangeExhausted, an entry being free
C25_RangeExhaustedSeen ==
    /\ last.op = "injectIntoGame" /\ last.ret = "IdRangeExhausted"
    /\ UnboundIds = {}
    /\ findFreeStreamingSlot # -1

\* the results of an injectIntoGame that threw
InjectFailures == {"NoFreeRegistryEntry", "IdRangeExhausted", "AllocFailed"}

\* C26: an injectIntoGame that fails for want of a registry entry, of an
\* id or of memory throws, modifies no registry entry and not the counter
\* of playback files, and leaves the injector not injected; a
\* removeFromGame that follows changes nothing.
C26_FailedInjectLeavesNoTrace ==
    [][/\ (last'.op = "injectIntoGame" /\ last'.ret \in InjectFailures) =>
            /\ registry' = registry
            /\ numPlayBackFiles' = numPlayBackFiles
            /\ heap' = heap
            /\ ~Injected(last'.who)
            /\ injectors'[last'.who].injectedFileNumber = NULL
       /\ (/\ last.op = "injectIntoGame" /\ last.ret \in InjectFailures
           /\ last'.op = "removeFromGame" /\ last'.who = last.who) =>
            /\ last'.ret = "not injected"
            /\ UNCHANGED <<heap, registry, numPlayBackFiles, injectors>>]_vars

\* removeFromGame has been called after an injection that failed for want
\* of an id, with the entry found for it still tagged and without data
C26_RemoveAfterFailure ==
    /\ last.op = "removeFromGame" /\ last.ret = "not injected"
    /\ injectors[last.who].streamingArrayIndex # -1
    /\ injectors[last.who].injectedFileNumber = NULL
    /\ registry[injectors[last.who].streamingArrayIndex].number
          >= initialFileNumber
    /\ UnboundIds = {}

\* entry i is tagged with an id of the reserved range and holds no data
Reclaimable(i) ==
    registry[i].number \in IdRange /\ registry[i].data = 0

\* entry i has never been used
Untouched(i) == registry[i].number = 0 /\ registry[i].data = 0

\* the step is an injectIntoGame by injector j, which was not injected
Injects(j) ==
    /\ ~Injected(j)
    /\ \E arg \in ArgFileNumbers \cup {UNDEFINED}, ok \in BOOLEAN :
          Injector_injectIntoGame(j, arg, ok)

\* C27: findFreeStreamingSlot returns a reclaimable entry whenever the
\* table has one, the first untouched entry only when it has none, and
\* fails with NoFreeRegistryEntry when it has neither.
C27_ReclaimableBeforeUntouched ==
    [][\A j \in Injectors : Injects(j) =>
          LET idx == injectors'[j].streamingArrayIndex
              R == {i \in Entries : Reclaimable(i)}
              U == {i \in Entries : Untouched(i)}
          IN
          /\ R # {} => idx \in R
          /\ (R = {} /\ U # {}) => idx = Min(U)
          /\ (R = {} /\ U = {}) =>
                (idx = -1 /\ last'.ret = "NoFreeRegistryEntry")]_vars

\* what the scan does return: the first entry that carries a number from
\* 900 upward without data or carries number 0, and -1 with
\* NoFreeRegistryEntry when there is none
Inject_FirstFreeOfEitherKind ==
    [][\A j \in Injectors : Injects(j) =>
          LET idx == injectors'[j].streamingArrayIndex
              F == {i \in Entries :
                      \/ registry[i].number >= initialFileNumber
                            /\ registry[i].data = 0
                      \/ registry[i].number = 0}
          IN
          /\ F # {} => idx = Min(F)
          /\ F = {} => (idx = -1 /\ last'.ret = "NoFreeRegistryEntry")]_vars

---------------------------------------------------------------------------
(* The slot a native playback claims and the slot it gives back            *)

\* NativeCarRecordingViewer.isPlaying()
NativeViewer_isPlaying(w) ==
    IF viewers[w].playbackSlot = -1 THEN FALSE
    ELSE slots[viewers[w].playbackSlot].goingOn # 0

\* the step is a startPlayback of viewer w that returns true
StartsPlayback(w, v, o) ==
    /\ NativeViewer_startPlayback(w, v, o[1], o[2], TRUE)
    /\ last'.ret = "true"

\* the first slot that is inactive
FirstInactive == Min({i \in Slots : slots[i].goingOn = 0})

\* C28: after a successful startPlayback the claimed slot is the first slot
\* that was inactive and holds the vehicle, the buffer and its size of 32
\* bytes per frame, cursor 0, elapsed time 0, speed 1.0, active set, paused
\* clear, looped and useHostAI as requested; isPlaying() is then true.
C28_ClaimedSlotFields ==
    [][\A w \in Viewers, v \in NVehicles, o \in StartOptions :
          StartsPlayback(w, v, o) =>
             LET s == viewers'[w].playbackSlot IN
             /\ s = FirstInactive
             /\ slots'[s].vehicle = v
             /\ slots'[s].buffer = viewers'[w].allocatedMemory
             /\ slots'[s].size = FRAME_SIZE * FrameCount(w)
             /\ slots'[s].index = 0
             /\ slots'[s].time = 0
             /\ slots'[s].speed = 10
             /\ slots'[s].goingOn # 0
             /\ slots'[s].paused = 0
             /\ slots'[s].looped = (IF o[2] THEN 1 ELSE 0)
             /\ slots'[s].useAI = (IF o[1] THEN 1 ELSE 0)
             /\ NativeViewer_isPlaying(w)']_vars

\* what startPlayback does write: every field as described but the cursor,
\* which is set to 900, and the active flag, which is written as 0, so
\* that isPlaying() is false
Start_ClaimsAllButCursorAndActive ==
    [][\A w \in Viewers, v \in NVehicles, o \in StartOptions :
          StartsPlayback(w, v, o) =>
             LET s == viewers'[w].playbackSlot IN
             /\ s = FirstInactive
             /\ slots'[s].vehicle = v
             /\ slots'[s].buffer = viewers'[w].allocatedMemory
             /\ slots'[s].size = FRAME_SIZE * FrameCount(w)
             /\ slots'[s].index = PLAYBACK_INDEX_WRITTEN
             /\ slots'[s].time = 0
             /\ slots'[s].speed = 10
             /\ slots'[s].goingOn = 0
             /\ slots'[s].paused = 0
             /\ slots'[s].looped = (IF o[2] THEN 1 ELSE 0)
             /\ slots'[s].useAI = (IF o[1] THEN 1 ELSE 0)
             /\ ~NativeViewer_isPlaying(w)'
             /\ \A i \in Slots \ {s} : slots'[i] = slots[i]]_vars

\* buffer a has been released
Released(h, a) == a \in Addrs => h[a].frees >= 1

\* C29: after stopPlayback, and after stopAllPlaybacks for every slot that
\* was active, every field of the released slot is cleared and the buffer
\* the slot owned has been released; all other slots are unchanged.
C29_ReleasedSlotCleared ==
    [][/\ \A w \in Viewers :
            (NativeViewer_stopPlayback(w) /\ viewers[w].playbackSlot # -1) =>
                LET s == viewers[w].playbackSlot IN
                /\ slots'[s] = EmptySlot
                /\ Released(heap', slots[s].buffer)
                /\ \A i \in Slots \ {s} : slots'[i] = slots[i]
       /\ NativeViewer_stopAllPlaybacks =>
            \A i \in Slots :
                IF slots[i].goingOn # 0
                THEN slots'[i] = EmptySlot /\ Released(heap', slots[i].buffer)
                ELSE slots'[i] = slots[i]]_vars

\* what the two operations do clear: the vehicle, the buffer pointer, the
\* size and the active flag; the cursor, the elapsed time, the speed and the
\* flags looped, paused and useHostAI keep their values, stopPlayback frees
\* the viewer's buffer and stopAllPlaybacks frees nothing
Stop_ClearsFourFields ==
    [][/\ \A w \in Viewers :
            (NativeViewer_stopPlayback(w) /\ viewers[w].playbackSlot # -1) =>
                LET s == viewers[w].playbackSlot IN
                /\ slots'[s] = [slots[s] EXCEPT !.vehicle = 0, !.buffer = 0,
                                                !.size = 0, !.goingOn = 0]
                /\ Released(heap', viewers[w].allocatedMemory)
                /\ \A i \in Slots \ {s} : slots'[i] = slots[i]
       /\ NativeViewer_stopAllPlaybacks =>
            /\ heap' = heap
            /\ \A i \in Slots :
                  slots'[i] = IF slots[i].goingOn # 0
                              THEN [slots[i] EXCEPT !.vehicle = 0,
                                      !.buffer = 0, !.size = 0, !.goingOn = 0]
                              ELSE slots[i]]_vars

---------------------------------------------------------------------------
(* The sampling interval of the recorder                                   *)

\* the step is one update() of the file recorder: the call is the last one
\* made, and it is not the game timer running between two calls
Ticks ==
    /\ last'.op = "update" /\ last'.who = 0
    /\ timer' = timer \/ recorder' # recorder

\* the values calculateNextInterval can return
Intervals ==
    BASE_INTERVAL_MS..(BASE_INTERVAL_MS + RANDOM_INTERVAL_MAX - 1)

\* the step takes a sample at game time timer': recordFrame is called, so
\* that at most one frame, stamped with the time since the start of the
\* recording, is appended to the frames `before`, and lastRecordTime and
\* the interval are set anew
TakesSample(before) ==
    /\ recorder'.frames \in
          {before,
           Append(before, timer' - recorder'.recordingStartTime)}
    /\ recorder'.lastRecordTime = timer'
    /\ recorder'.nextRecordingInterval \in Intervals

\* consecutive frames are at least d apart
Apart(frames, d) ==
    \A i \in 1..(Len(frames) - 1) : frames[i + 1] - frames[i] >= d

---------------------------------------------------------------------------
(* The states of a viewer                                                  *)

\* Stopped, Playing or Paused, for either viewer
StateOf(v) ==
    IF ~v.isPlaying THEN "Stopped"
    ELSE IF v.isPaused THEN "Paused" ELSE "Playing"

\* the transitions between two different states
Transitions ==
    {<<"Stopped", "Playing">>, <<"Playing", "Paused">>,
     <<"Playing", "Stopped">>, <<"Paused", "Playing">>,
     <<"Paused", "Stopped">>}

\* a step of viewer v to viewer w is one of the transitions or none
Moves(v, w) ==
    StateOf(v) = StateOf(w) \/ <<StateOf(v), StateOf(w)>> \in Transitions

\* C31: a paused player is playing; pause() changes nothing unless the
\* player is playing; after startPlayback, after stopPlayback and after an
\* update that ended the playback the paused flag is clear; and every step
\* is one of Stopped to Playing, Playing to Paused or Stopped, Paused to
\* Playing or Stopped.
C31_PausedImpliesPlaying ==
    /\ [](player.isPaused => player.isPlaying)
    /\ [][/\ Moves(player, player')
          /\ (last'.op = "pause" /\ ~player.isPlaying) => player' = player
          /\ last'.op \in {"startPlayback", "stopPlayback"}
                => ~player'.isPaused
          /\ (player.isPlaying /\ ~player'.isPlaying) => ~player'.isPaused
      ]_vars

\* pause() has paused a playing player
C31_PausedWhilePlaying ==
    /\ last.op = "pause"
    /\ player.isPlaying /\ player.isPaused
    /\ ~hist.clean

\* the wall-clock viewer keeps to the same states and transitions
Frame_PausedImpliesPlaying ==
    /\ [](fviewer.isPaused => fviewer.isPlaying)
    /\ [][/\ Moves(fviewer, fviewer')
          /\ (fviewer.isPlaying /\ ~fviewer'.isPlaying)
                => ~fviewer'.isPaused]_vars

---------------------------------------------------------------------------
(* A second injectIntoGame on an injected injector                         *)

\* C32: injectIntoGame on an injector that is already injected returns the
\* file number of its injection and leaves the registry, the heap, the
\* playback-file counter and the injector as they are, whatever file
\* number is passed.
C32_InjectIdempotent ==
    [][\A j \in {last'.who} \cap Injectors :
          (last'.op = "injectIntoGame" /\ Injected(j)) =>
             /\ last'.ret = "already"
             /\ last'.aux = injectors[j].injectedFileNumber
             /\ UNCHANGED <<registry, heap, numPlayBackFiles, injectors>>
      ]_vars

\* injectIntoGame has returned the file number of an injected injector
\* while an entry and an id were free for a further injection
C32_SecondInjectReturned ==
    /\ last.op = "injectIntoGame" /\ last.ret = "already"
    /\ last.aux = injectors[last.who].injectedFileNumber
    /\ registry[injectors[last.who].streamingArrayIndex].data
          = injectors[last.who].allocatedMemory
    /\ findFreeStreamingSlot # -1
    /\ UnboundIds # {}
    /\ HasFreshAddr

---------------------------------------------------------------------------
(* A native startPlayback that failed                                      *)

\* the last call was a startPlayback that returned false
StartFailed == last.op = "startPlayback" /\ last.ret = "false"

\* the step is a call on the viewer of the last call, other than a
\* startPlayback
FollowingCall ==
    /\ last'.who = last.who
    /\ last'.op \in {"pause", "resume", "setPlaybackSpeed", "stopPlayback"}

\* C33: a startPlayback that returned false has written no slot and leaves
\* getPlaybackSlot() at -1, and a pause, resume, setPlaybackSpeed or
\* stopPlayback that follows it on the same viewer changes no slot and
\* frees no buffer.
C33_FailedStartOwnsNothing ==
    [][/\ (last'.op = "startPlayback" /\ last'.ret = "false") =>
            /\ slots' = slots
            /\ viewers'[last'.who].playbackSlot = -1
       /\ (StartFailed /\ FollowingCall) =>
            /\ slots' = slots
            /\ heap' = heap]_vars

\* what holds of the failure for want of a slot: the viewer is left without
\* a slot and the calls that follow do nothing
Start_NoSlotOwnsNothing ==
    [][/\ (last'.op = "startPlayback" /\ last'.ret = "false") =>
            /\ slots' = slots
            /\ heap' = heap
            /\ findInactivePlaybackSlot = -1
                  => viewers'[last'.who].playbackSlot = -1
            /\ findInactivePlaybackSlot # -1
                  => /\ viewers'[last'.who].playbackSlot
                          = findInactivePlaybackSlot
                     /\ viewers'[last'.who].allocatedMemory = 0
       /\ (StartFailed /\ FollowingCall /\ last.aux = -1) =>
            /\ slots' = slots
            /\ heap' = heap]_vars

---------------------------------------------------------------------------
(* Registry entries of the host                                            *)

\* entry i carries a number of the host: not 0 and not of the range
HostEntry(i) ==
    registry[i].number # 0 /\ registry[i].number \notin IdRange

\* C34: injectIntoGame never selects, and so never overwrites, an entry
\* whose number is nonzero and outside the reserved range, whether it holds
\* data or not.
C34_HostEntriesNeverSelected ==
    [][\A j \in {last'.who} \cap Injectors :
          (last'.op = "injectIntoGame" /\ ~Injected(j)) =>
             \A i \in Entries : HostEntry(i) =>
                /\ injectors'[j].streamingArrayIndex # i
                /\ registry'[i] = registry[i]]_vars

\* what holds of the entries of the host: those numbered below the range
\* and those that hold data are never selected
Inject_SparesHostEntriesBelowOrLive ==
    [][\A j \in {last'.who} \cap Injectors :
          (last'.op = "injectIntoGame" /\ ~Injected(j)) =>
             \A i \in Entries :
                (HostEntry(i) /\ (registry[i].number < initialFileNumber
                                  \/ registry[i].data # 0)) =>
                   /\ injectors'[j].streamingArrayIndex # i
                   /\ registry'[i] = registry[i]]_vars

---------------------------------------------------------------------------
(* The playback-file counter                                               *)

\* C35: the counter NumPlayBackFiles stays within 0 and the capacity of
\* the registry under every sequence of injections, removals and releases
\* by the game.
C35_CounterWithinCapacity ==
    numPlayBackFiles \in 0..TOTAL_RRR_MODEL_IDS

\* what holds of the counter: it never goes below 0, and it counts at
\* least the entries that hold data
Counter_CountsLiveEntries ==
    /\ numPlayBackFiles >= 0
    /\ numPlayBackFiles >= Cardinality({i \in Entries : registry[i].data # 0})

---------------------------------------------------------------------------
(* stopPlayback of the delta-time viewer in every state                    *)

\* C36: stopPlayback completes without error in every state, also when the
\* player is stopped, and leaves the player stopped with clock 0 and
\* neither a vehicle nor a driver.
C36_StopIsSafe ==
    last.op = "stopPlayback" =>
        /\ last.ret = "void"
        /\ ~player.isPlaying /\ ~player.isPaused
        /\ player.currentTime = 0
        /\ player.playbackVehicle = NULL
        /\ player.driver = NULL

\* what holds of stopPlayback: the fields are reset in every state, and the
\* call throws exactly when the player holds no driver, as it does before
\* the first startPlayback and after every stop
Stop_ThrowsWithoutDriver ==
    [][last'.op = "stopPlayback" =>
          /\ ~player'.isPlaying /\ ~player'.isPaused
          /\ player'.currentTime = 0
          /\ player'.playbackVehicle = NULL
          /\ player'.driver = NULL
          /\ (last'.ret = "TypeError") = (player.driver = NULL)
          /\ ~player.isPlaying => player.driver = NULL]_vars

---------------------------------------------------------------------------
(* Collision flags across startPlayback and stopPlayback                   *)

\* C37: startPlayback followed by stopPlayback restores the collision flags
\* of the vehicle: after a stopPlayback that ends a playback on a vehicle
\* that still exists, the collision-force-disabled and collidable bits have
\* the values startPlayback found.
C37_StopRestoresFlags ==
    (last.op = "stopPlayback" /\ last.ret = "void" /\ HasVehiclePointer) =>
        <<car.disableCollisionForce, car.collidable>> = flagsFound

\* the flags are restored for a vehicle that had the collision force
\* enabled and was collidable
Stop_RestoresUsualFlags ==
    (/\ last.op = "stopPlayback" /\ last.ret = "void" /\ HasVehiclePointer
     /\ flagsFound = <<FALSE, TRUE>>) =>
        <<car.disableCollisionForce, car.collidable>> = flagsFound

\* what the code does: a stopPlayback that holds a vehicle whose pointer
\* resolves clears the collision-force bit and sets the collidable bit,
\* whatever they were, and any other stopPlayback leaves the vehicle alone
Stop_WritesFixedFlags ==
    [][last'.op = "stopPlayback" =>
          IF player.playbackVehicle # NULL /\ HasVehiclePointer
          THEN /\ ~car'.disableCollisionForce /\ car'.collidable
               /\ car'.recordingId = -1
               /\ car'.applied = car.applied /\ car'.status = car.status
          ELSE car' = car]_vars

---------------------------------------------------------------------------
(* getInterpolationFrames outside the recorded span                        *)

\* the query time clamped into [first.t, last.t]
ClampedTime ==
    IF bq.time < StampOf(1) THEN StampOf(1)
    ELSE IF bq.time > StampOf(Len(recording)) THEN StampOf(Len(recording))
    ELSE bq.time

\* the result is an adjacent pair around time c with the factor of c
BracketsTime(c) ==
    LET r == bq.result
        D == StampOf(r.next) - StampOf(r.prev)
    IN
    /\ r.found /\ r.prev \in 1..(Len(recording) - 1) /\ r.next = r.prev + 1
    /\ StampOf(r.prev) <= c /\ c <= StampOf(r.next)
    /\ r.factor[1] * D = r.factor[2] * (c - StampOf(r.prev))

\* C38: for a recording of two frames or more and any query time,
\* getInterpolationFrames returns the bracket of the time clamped into
\* [first.t, last.t]; for a time below the first timestamp that is the
\* first two frames with factor 0.
C38_BracketOfClampedTime ==
    (bq.asked /\ Len(recording) >= 2) =>
        /\ BracketsTime(ClampedTime)
        /\ bq.time < StampOf(1) =>
              /\ bq.result.prev = 1 /\ bq.result.next = 2
              /\ bq.result.factor = Zero

\* what the code does: a time from the first timestamp on gets the bracket
\* of the clamped time, and a time below the first timestamp falls through
\* the scan to the last two frames with factor 1.0
Bracket_BelowFirstIsLastPair ==
    (bq.asked /\ Len(recording) >= 2) =>
        IF bq.time < StampOf(1)
        THEN LastTwoAtOne
        ELSE BracketsTime(ClampedTime)

\* the vehicle of a playback whose clock is before the first timestamp
\* after an update carries the last frame of the recording
Update_BeforeFirstAppliesLast ==
    (/\ last.op = "update" /\ last.aux = 1
     /\ player.isPlaying /\ Len(recording) >= 2
     /\ player.currentTime < recording[1].time * Tenths) =>
        car.applied = FrameState(recording[Len(recording)])

---------------------------------------------------------------------------
(* The end of a non-looped playback                                        *)

\* an update of a running, unpaused, non-looped playback of a live vehicle
\* either moves the clock forward or stops the playback
Tick_Advances ==
    [][(/\ last'.op = "update"
        /\ player.isPlaying /\ ~player.isPaused /\ ~player.looped
        /\ ~IsDead /\ player'.isPlaying) =>
           player'.currentTime > player.currentTime]_vars

\* a stopped player is set playing by startPlayback alone
Stopped_UntilStart ==
    [][(~player.isPlaying /\ player'.isPlaying) =>
           last'.op = "startPlayback"]_vars

\* C39: with update called every frame, a non-looped playback that is not
\* paused does not run forever: each tick moves its clock forward, after
\* finitely many ticks the player is stopped, and it stays stopped until
\* the next startPlayback.
C39_NonLoopedPlaybackEnds ==
    /\ Tick_Advances
    /\ Stopped_UntilStart
    /\ []<>(~player.isPlaying \/ player.isPaused \/ player.looped)

\* a non-looped playback left to update and setPlaybackSpeed alone has run
\* past its end and is stopped; the odd tenth of a millisecond it has
\* played comes from a tick at the lowest speed the clamp allows
C39_SlowPlaybackEnded ==
    /\ last.op = "update" /\ hist.clean
    /\ ~player.isPlaying /\ ~player.looped
    /\ car.status = "alive"
    /\ Len(recording) >= 2
    /\ hist.elapsed = getDuration * Tenths + 1

---------------------------------------------------------------------------
(* The recording file against the Recording in memory                      *)

\* the timestamp bytes of the records of the given frames, in order
RecordsOf(frames) == [i \in 1..Len(frames) |-> Bytes4(frames[i])]

\* sequence a is sequence b with some of its elements left out
RECURSIVE IsSubSeq(_, _)
IsSubSeq(a, b) ==
    IF a = <<>> THEN TRUE
    ELSE IF b = <<>> THEN FALSE
    ELSE IF Head(a) = Head(b) THEN IsSubSeq(Tail(a), Tail(b))
    ELSE IsSubSeq(a, Tail(b))

\* C40: while recording, the records appended to the open file are, in
\* order, the encodings of the frames of the Recording, the file length is
\* 32 bytes times the frame count, and the file is open exactly while the
\* recorder is recording.
C40_FileImageOfRecording ==
    /\ recorder.fileHandle <=> recorder.isRecording
    /\ recorder.isRecording =>
          /\ RecordsOf(recorder.written) = RecordsOf(recorder.frames)
          /\ FRAME_SIZE * Len(recorder.written)
               = FRAME_SIZE * Len(recorder.frames)

\* what the code keeps: the file is open exactly while recording, and its
\* records are those of the frames in order with the frames left out whose
\* write failed
File_RecordsAmongFrames ==
    /\ recorder.fileHandle <=> recorder.isRecording
    /\ IsSubSeq(RecordsOf(recorder.written), RecordsOf(recorder.frames))
    /\ ~recorder.fileHandle => recorder.written = <<>>

====
